---- MODULE Spec2Model ----
(***************************************************************************)
(* Session / wagon-progression state machine of the game backend:          *)
(* SessionService (app/services/session_service.py) over the pydantic      *)
(* models of app/models/session.py.  Every classmethod of the service is   *)
(* synchronous Python, so each one is one atomic action.  A uid is a       *)
(* string; it is modelled as its sequence of characters so that            *)
(* uid.split("-")[1] and int(...) are computed, not assumed.               *)
(***************************************************************************)
EXTENDS Integers, Sequences, FiniteSets, TLC

\* ------------------------------------------------------------------ bounds
NumWagons == 3        \* len(wagons_data["wagons"]) of data/wagons.json
MaxMsgs == 2          \* messages a client sends to one conversation
MaxGuesses == 1       \* guesses recorded per session
MaxTime == 1          \* clock readings (hours)
MaxAdvanceCalls == NumWagons + 1
MaxHistory == 6       \* previous guesses / indications handed to generate
MaxIndicationLen == 3 \* characters of the current indication
MaxPassengers == 2    \* passengers the provider lists for one wagon

VARIABLES
    sessions,      \* SessionService._sessions : session_id -> UserSession
    minted,        \* session ids uuid4 has already produced
    now,           \* datetime.utcnow(), in hours
    last,          \* the last service call: operation, arguments, result
    adv_calls,     \* history: advance_wagon calls per session id that
                   \*          loaded the dataset
    sent,          \* history: messages accepted by add_message per uid,
                   \*          for the wagon the session is in
    guessed,       \* history: the (indication, guess) pairs handed to
                   \*          update_guessing_progress in the wagon the
                   \*          session is in
    touched,       \* history: when the last call that stored the session
                   \*          (create_session, update_session) returned
    last_read,     \* history: when a get_session call of a client last
                   \*          returned the session
    gen,           \* GuessingService.generate: the call and what it hands
                   \*          to the chain
    inflight,      \* HTTP requests whose session dependency has resolved and
                   \*          whose route body has not finished
    response,      \* the last HTTP response sent
    saved,         \* the files under data/default/ and data/<session_id>/ :
                   \*          name -> content
    scorer,        \* ScoringService.is_similar: the call and its attempts
    train          \* GenerateTrainService.generate_train: the call and
                   \*          what it returns

vars == <<sessions, minted, now, last, adv_calls, sent, guessed, touched,
          last_read, gen, saved, scorer, train, inflight, response>>

\* ------------------------------------------------------------ plain helpers
Min(a, b) == IF a < b THEN a ELSE b

IsPrefix(s, t) == /\ Len(s) <= Len(t)
                  /\ \A i \in 1..Len(s) : s[i] = t[i]

\* the session ids uuid4 can produce
SessionIds == {1}

\* the session ids of the runs with two sessions
TwoSessionIds == {1, 2}

\* ------------------------------------------------------------ strings
DigitChars == <<"0", "1", "2", "3", "4", "5", "6", "7", "8", "9">>

IsDigit(c) == \E d \in 1..10 : DigitChars[d] = c

DigitVal(c) == (CHOOSE d \in 1..10 : DigitChars[d] = c) - 1

\* str(n) for n >= 0
RECURSIVE Str(_)
Str(n) == IF n < 10 THEN <<DigitChars[n + 1]>>
          ELSE Str(n \div 10) \o <<DigitChars[(n % 10) + 1]>>

\* ------------------------------------------------------------- the dataset
\* data/wagons.json: an ordered list of wagons, each with theme and passcode.
\* Nothing in the program writes this file; whether it can be read is an
\* input of each advance_wagon call.
wagons_data == [i \in 1..NumWagons |->
                  [id |-> i - 1,
                   theme |-> <<"t", "h", "e", "m", "e">> \o Str(i - 1),
                   passcode |-> <<"c", "o", "d", "e">> \o Str(i - 1)]]

max_wagon_index == Len(wagons_data) - 1

\* ------------------------------------------------------------ uid strings
\* f"wagon-{i}-player-{k}"
Uid(i, k) == <<"w", "a", "g", "o", "n", "-">> \o Str(i)
             \o <<"-", "p", "l", "a", "y", "e", "r", "-">> \o Str(k)

MainCharacter == <<"m", "a", "i", "n", "-", "c", "h", "a", "r", "a", "c", "t", "e", "r">>

\* identities without a parsable wagon index
NoDashUid == <<"n", "p", "c">>
NonIntUid == <<"w", "a", "g", "o", "n", "-", "x", "-", "p", "l", "a", "y", "e", "r", "-", "1">>

\* str.split(sep): the list of parts between separators
RECURSIVE Split(_, _)
Split(s, sep) ==
    IF \A i \in 1..Len(s) : s[i] # sep THEN <<s>>
    ELSE LET p == CHOOSE i \in 1..Len(s) :
                     /\ s[i] = sep
                     /\ \A j \in 1..(i - 1) : s[j] # sep
         IN <<SubSeq(s, 1, p - 1)>> \o Split(SubSeq(s, p + 1, Len(s)), sep)

\* int(str) on a decimal string; "ValueError" when it is not one
RECURSIVE DecVal(_)
DecVal(s) == IF Len(s) = 0 THEN 0
             ELSE 10 * DecVal(SubSeq(s, 1, Len(s) - 1)) + DigitVal(s[Len(s)])

ParseInt(s) == IF Len(s) > 0 /\ \A i \in 1..Len(s) : IsDigit(s[i])
               THEN [ok |-> TRUE, val |-> DecVal(s)]
               ELSE [ok |-> FALSE, err |-> "ValueError"]

\* int(uid.split("-")[1])
UidWagonIdLenient(uid) ==
    LET parts == Split(uid, "-")
    IN IF Len(parts) >= 2 /\ ParseInt(parts[2]).ok THEN ParseInt(parts[2])
       ELSE [ok |-> TRUE, val |-> 0]

UidWagonId(uid) ==
    LET parts == Split(uid, "-")
    IN IF Len(parts) < 2 THEN [ok |-> FALSE, err |-> "IndexError"]
       ELSE ParseInt(parts[2])

\* the players of a wagon that clients address
Players == {1}

\* wagon-i-player-k for the wagons of the dataset and one index beyond them
WellFormedUids == {Uid(i, k) : i \in 0..NumWagons, k \in Players}

Uids == WellFormedUids \cup {MainCharacter, NoDashUid, NonIntUid}

\* the wagon index add_message and get_conversation read out of each uid
WagonIdOf == [uid \in Uids |-> UidWagonId(uid)]

\* --------------------------------------------------------------- the models
\* Python's None, and a str where None is the alternative
None == [kind |-> "None"]
Some(str) == [kind |-> "str", str |-> str]

\* {} : a dict with no keys
EmptyDict == [x \in {} |-> 0]

Roles == {"user", "assistant"}
Contents == {"hello"}

\* Message(role=..., content=...): timestamp defaults to utcnow()
Message(role, content) == [role |-> role, content |-> content, timestamp |-> now]

\* Conversation(uid=uid)
Conversation(uid) == [uid |-> uid, messages |-> <<>>, last_interaction |-> now]

\* GuessingProgress()
GuessingProgress == [guesses |-> <<>>, indications |-> <<>>]

\* WagonProgress(wagon_id=w); conversations is a dict keyed by uid
WagonProgress(w) == [wagon_id |-> w, conversations |-> EmptyDict,
                     completed |-> FALSE, unlocked |-> FALSE,
                     passcode |-> None]

\* UserSession(): the shape the service works on (current_wagon,
\* guessing_progress); current_guesses is the attribute advance_wagon
\* assigns, which no other code reads
UserSession(id) == [session_id |-> id,
                    current_wagon |-> WagonProgress(0),
                    guessing_progress |-> GuessingProgress,
                    current_guesses |-> "unset",
                    default_game |-> TRUE,
                    created_at |-> now,
                    last_active |-> now]

Live == DOMAIN sessions

\* dict[key] = value on a dict modelled as a function
DictSetAlone(d, k, v) == [x \in {k} |-> v]

DictSet(d, k, v) == [x \in (DOMAIN d) \cup {k} |-> IF x = k THEN v ELSE d[x]]

\* del dict[key]
DictDelNothing(d, k) == d

DictDel(d, k) == [x \in (DOMAIN d) \ {k} |-> d[x]]

\* what a call gives back: None, an exception, or a value of some type
Raised(e) == [kind |-> "raised", exception |-> e]
ReturnedBool(b) == [kind |-> "bool", bool |-> b]
ReturnedSession(s) == [kind |-> "UserSession", session |-> s]
ReturnedConversation(c) == [kind |-> "Conversation", conversation |-> c]
ReturnedProgress(g) == [kind |-> "GuessingProgress", progress |-> g]

\* the record of a service call: operation, arguments, result
Call(op, sid, uid, readable, ret) ==
    [op |-> op, sid |-> sid, uid |-> uid, readable |-> readable, ret |-> ret]

\* the requests the server holds at once
Slots == {1, 2}

NoRequest == [route |-> "none", pc |-> "none"]

NoResponse == [route |-> "none", sid |-> 0, code |-> 0, body |-> [kind |-> "None"]]

\* a JSON list, as json.load returns it
JsonList(items) == [kind |-> "list", items |-> items]

\* the three files of a data directory
FileNames == <<"names.json", "player_details.json", "wagons.json">>

DataFiles(names, player_details, wagons) ==
    [name \in {FileNames[1], FileNames[2], FileNames[3]} |->
        IF name = FileNames[1] THEN JsonList(names)
        ELSE IF name = FileNames[2] THEN JsonList(player_details)
        ELSE JsonList(wagons)]

\* ------------------------------------------------------------------- Init
Memory0 ==
    /\ sessions = EmptyDict
    /\ minted = {}
    /\ now = 0
    /\ last = Call("init", 0, <<>>, TRUE, None)
    /\ adv_calls = [s \in TwoSessionIds |-> 0]
    /\ sent = [s \in TwoSessionIds |-> EmptyDict]
    /\ guessed = [s \in TwoSessionIds |-> <<>>]
    /\ touched = [s \in TwoSessionIds |-> 0]
    /\ last_read = [s \in TwoSessionIds |-> 0]
    /\ inflight = [slot \in Slots |-> NoRequest]
    /\ response = NoResponse

\* no train has been generated for a session, and data/default/ holds the
\* wagons of data/wagons.json
Registry0 ==
    /\ Memory0
    /\ saved = [default |-> DataFiles(<<>>, <<>>, wagons_data),
                session |-> [s \in TwoSessionIds |-> EmptyDict]]

Idle == [pc |-> "idle"]

Init == Registry0 /\ gen = Idle /\ scorer = Idle /\ train = Idle

update_session_touching_all(session) ==
    [s \in (DOMAIN sessions) \cup {session.session_id} |->
        [(IF s = session.session_id THEN session ELSE sessions[s])
            EXCEPT !.last_active = now]]

\* update_session(session): bump last_active, store under session_id
update_session(session) ==
    DictSet(sessions, session.session_id, [session EXCEPT !.last_active = now])

\* create_session(), uuid4 drawing the id from ids
CreateSessionIn(ids) ==
    \E id \in ids \ minted :
        /\ sessions' = DictSet(sessions, id, UserSession(id))
        /\ minted' = minted \cup {id}
        /\ last' = Call("create_session", id, <<>>, TRUE,
                        ReturnedSession(UserSession(id)))
        /\ touched' = [touched EXCEPT ![id] = now]
        /\ UNCHANGED <<now, adv_calls, sent, guessed>>

CreateSession == CreateSessionIn(SessionIds)

\* get_session(session_id) read from the registry _sessions: None when the
\* id is not in it
get_session_or_new(_sessions, sid) ==
    ReturnedSession(IF sid \in DOMAIN _sessions THEN _sessions[sid]
                    ELSE UserSession(sid))

get_session(_sessions, sid) ==
    IF sid \in DOMAIN _sessions THEN ReturnedSession(_sessions[sid]) ELSE None

\* wagon_id != session.current_wagon.wagon_id
WrongWagonLoose(wagon_id, current_wagon_id) == wagon_id > current_wagon_id

WrongWagon(wagon_id, current_wagon_id) == wagon_id # current_wagon_id

\* if uid not in conversations: conversations[uid] = Conversation(uid=uid)
StartConversationAlways(conversations, uid) ==
    DictSet(conversations, uid, Conversation(uid))

StartConversation(conversations, uid) ==
    IF uid \notin DOMAIN conversations
    THEN DictSet(conversations, uid, Conversation(uid))
    ELSE conversations

\* conversation.messages.append(message)
AppendMessageFront(messages, message) == <<message>> \o messages

AppendMessage(messages, message) == Append(messages, message)

\* add_message(session_id, uid, message), message = Message(role, content)
\* built by the caller right before the call
AddMessageUpTo(cap, sid, uid, role, content) ==
    LET message == Message(role, content)
        w == WagonIdOf[uid]
    IN IF sid \notin Live
       THEN /\ last' = Call("add_message", sid, uid, TRUE, None)
            /\ UNCHANGED <<sessions, minted, now, adv_calls, sent, guessed, touched>>
       ELSE IF ~w.ok
       THEN /\ last' = Call("add_message", sid, uid, TRUE, Raised(w.err))
            /\ UNCHANGED <<sessions, minted, now, adv_calls, sent, guessed, touched>>
       ELSE IF WrongWagon(w.val, sessions[sid].current_wagon.wagon_id)
       THEN /\ last' = Call("add_message", sid, uid, TRUE, None)
            /\ UNCHANGED <<sessions, minted, now, adv_calls, sent, guessed, touched>>
       ELSE LET session == sessions[sid]
                started == StartConversation(session.current_wagon.conversations, uid)
                conversation ==
                    [started[uid] EXCEPT
                        !.messages = AppendMessage(@, message),
                        !.last_interaction = now]
                stored == [session EXCEPT !.current_wagon.conversations =
                                              DictSet(started, uid, conversation)]
            IN /\ Len(started[uid].messages) < cap
               /\ sessions' = update_session(stored)
               /\ last' = Call("add_message", sid, uid, TRUE,
                               ReturnedConversation(conversation))
               /\ sent' = [sent EXCEPT ![sid] =
                             DictSet(@, uid,
                                 IF uid \in DOMAIN @ THEN Append(@[uid], message)
                                 ELSE <<message>>)]
               /\ touched' = [touched EXCEPT ![sid] = now]
               /\ UNCHANGED <<minted, now, adv_calls, guessed>>

AddMessage(sid, uid, role, content) ==
    AddMessageUpTo(MaxMsgs, sid, uid, role, content)

\* get_conversation(session_id, uid) read from the registry _sessions
get_conversation(_sessions, sid, uid) ==
    LET w == WagonIdOf[uid]
    IN IF sid \notin DOMAIN _sessions THEN None
       ELSE IF ~w.ok THEN Raised(w.err)
       ELSE IF WrongWagon(w.val, _sessions[sid].current_wagon.wagon_id) THEN None
       ELSE IF uid \in DOMAIN _sessions[sid].current_wagon.conversations
       THEN ReturnedConversation(_sessions[sid].current_wagon.conversations[uid])
       ELSE None

\* get_guessing_progress(session_id) read from the registry _sessions
get_guessing_progress(_sessions, sid) ==
    IF sid \in DOMAIN _sessions
    THEN ReturnedProgress(_sessions[sid].guessing_progress)
    ELSE None

Guesses == {"gold"}
Thoughts == {<<>>, <<"hm">>}

\* update_guessing_progress(session_id, indication, guess, thought)
\* The source holds both sides of an unresolved merge here; this is the side
\* with the thought parameter and the narrator conversation, the one the
\* call in routes/chat.py (four arguments) matches.
\* The session object is mutated in place, so what was appended before
\* thought[0] raises stays in the stored session.
UpdateGuessingProgress(sid, indication, guess, thought) ==
    IF sid \notin Live
    THEN /\ last' = Call("update_guessing_progress", sid, <<>>, TRUE, None)
         /\ UNCHANGED <<sessions, minted, now, adv_calls, sent, guessed, touched>>
    ELSE LET session == sessions[sid]
             s1 == [session EXCEPT
                      !.guessing_progress.guesses = Append(@, guess),
                      !.guessing_progress.indications =
                          Append(@, Message("user", indication))]
             convs == s1.current_wagon.conversations
             started == IF MainCharacter \notin DOMAIN convs
                        THEN DictSet(convs, MainCharacter, Conversation(MainCharacter))
                        ELSE convs
             s2 == [s1 EXCEPT !.current_wagon.conversations =
                      [started EXCEPT ![MainCharacter].messages =
                          Append(@, Message("user", indication))]]
             s3 == [s2 EXCEPT
                      !.current_wagon.conversations[MainCharacter].messages =
                          Append(@, Message("assistant", thought[1]))]
         IN /\ Len(session.guessing_progress.guesses) < MaxGuesses
            /\ IF Len(thought) = 0
               THEN /\ sessions' = DictSet(sessions, sid, s2)
                    /\ last' = Call("update_guessing_progress", sid, <<>>, TRUE,
                                    Raised("IndexError"))
                    /\ UNCHANGED touched
               ELSE /\ sessions' = update_session(s3)
                    /\ last' = Call("update_guessing_progress", sid, <<>>, TRUE, None)
                    /\ touched' = [touched EXCEPT ![sid] = now]
            /\ guessed' = [guessed EXCEPT ![sid] =
                              Append(@, [indication |-> indication, guess |-> guess])]
            /\ UNCHANGED <<minted, now, adv_calls, sent>>

\* json.load of data/wagons.json inside try/except: the last wagon id, or
\* the failure that makes advance_wagon return False
LoadWagonsUnchecked(readable) ==
    [ok |-> TRUE, max_wagon_id |-> Len(wagons_data) - 1]

LoadWagons(readable) ==
    IF readable THEN [ok |-> TRUE, max_wagon_id |-> Len(wagons_data) - 1]
    ELSE [ok |-> FALSE]

\* next_wagon_id = session.current_wagon.wagon_id + 1
NextWagonId(wagon_id) == wagon_id + 1

\* the bounds check of advance_wagon: next_wagon_id > max_wagon_id
OutOfBoundsOffByOne(next_wagon_id, max_wagon_id) == next_wagon_id > max_wagon_id + 1

OutOfBoundsEarly(next_wagon_id, max_wagon_id) == next_wagon_id >= max_wagon_id

OutOfBounds(next_wagon_id, max_wagon_id) == next_wagon_id > max_wagon_id

\* session.current_wagon = WagonProgress(wagon_id=next_wagon_id)
\* session.current_guesses = GuessingProgress()
SetUpNextWagonInPlace(session, next_wagon_id) ==
    [session EXCEPT !.current_wagon.wagon_id = next_wagon_id,
                    !.current_guesses = GuessingProgress]

SetUpNextWagon(session, next_wagon_id) ==
    [session EXCEPT !.current_wagon = WagonProgress(next_wagon_id),
                    !.current_guesses = GuessingProgress]

\* advance_wagon(session_id); readable: whether data/wagons.json loads
AdvanceWagon(sid, readable) ==
    LET loaded == LoadWagons(readable)
    IN IF sid \notin Live
       THEN /\ last' = Call("advance_wagon", sid, <<>>, readable, ReturnedBool(FALSE))
            /\ UNCHANGED <<sessions, minted, now, adv_calls, sent, guessed, touched>>
       ELSE IF ~loaded.ok
       THEN /\ last' = Call("advance_wagon", sid, <<>>, readable, ReturnedBool(FALSE))
            /\ UNCHANGED <<sessions, minted, now, adv_calls, sent, guessed, touched>>
       ELSE LET session == sessions[sid]
                next_wagon_id == NextWagonId(session.current_wagon.wagon_id)
            IN /\ adv_calls[sid] < MaxAdvanceCalls
               /\ adv_calls' = [adv_calls EXCEPT ![sid] = @ + 1]
               /\ IF OutOfBounds(next_wagon_id, loaded.max_wagon_id)
                  THEN /\ last' = Call("advance_wagon", sid, <<>>, readable,
                                       ReturnedBool(FALSE))
                       /\ UNCHANGED <<sessions, minted, now, sent, guessed, touched>>
                  ELSE /\ sessions' = update_session(
                                          SetUpNextWagon(session, next_wagon_id))
                       /\ last' = Call("advance_wagon", sid, <<>>, readable,
                                       ReturnedBool(TRUE))
                       /\ sent' = [sent EXCEPT ![sid] = EmptyDict]
                       /\ guessed' = [guessed EXCEPT ![sid] = <<>>]
                       /\ touched' = [touched EXCEPT ![sid] = now]
                       /\ UNCHANGED <<minted, now>>

\* the max_age_hours the sweep is called with
MaxAges == {0, 1}

\* the record of a sweep: cleanup_old_sessions(max_age_hours) returns None
Sweep(max_age_hours) ==
    [op |-> "cleanup_old_sessions", sid |-> 0, uid |-> <<>>, readable |-> TRUE,
     ret |-> None, max_age_hours |-> max_age_hours]

\* if age > max_age_hours
ExpiredAtThreshold(age, max_age_hours) == age >= max_age_hours

Expired(age, max_age_hours) == age > max_age_hours

\* cleanup_old_sessions(max_age_hours)
CleanupOldSessions(max_age_hours) ==
    LET sessions_to_remove ==
            {s \in Live : Expired(now - sessions[s].last_active, max_age_hours)}
    IN /\ sessions' = [s \in Live \ sessions_to_remove |-> sessions[s]]
       /\ last' = Sweep(max_age_hours)
       /\ sent' = [s \in DOMAIN sent |->
                     IF s \in sessions_to_remove THEN EmptyDict ELSE sent[s]]
       /\ guessed' = [s \in DOMAIN guessed |->
                        IF s \in sessions_to_remove THEN <<>> ELSE guessed[s]]
       /\ UNCHANGED <<minted, now, adv_calls, touched>>

\* terminate_session(session_id)
TerminateSession(sid) ==
    IF sid \notin Live
    THEN /\ last' = Call("terminate_session", sid, <<>>, TRUE, None)
         /\ UNCHANGED <<sessions, minted, now, adv_calls, sent, guessed, touched>>
    ELSE /\ sessions' = DictDel(sessions, sid)
         /\ last' = Call("terminate_session", sid, <<>>, TRUE, None)
         /\ sent' = [sent EXCEPT ![sid] = EmptyDict]
         /\ guessed' = [guessed EXCEPT ![sid] = <<>>]
         /\ UNCHANGED <<minted, now, adv_calls, touched>>

\* the clock advances between calls
Tick ==
    /\ now < MaxTime
    /\ now' = now + 1
    /\ UNCHANGED <<sessions, minted, last, adv_calls, sent, guessed, touched>>

Next ==
    \/ CreateSession /\ UNCHANGED <<last_read, gen, saved, scorer, train, inflight, response>>
    \/ \E sid \in SessionIds, uid \in Uids, role \in Roles, content \in Contents :
          AddMessage(sid, uid, role, content) /\ UNCHANGED <<last_read, gen, saved, scorer, train, inflight, response>>
    \/ \E sid \in SessionIds, indication \in Contents, guess \in Guesses,
          thought \in Thoughts :
          UpdateGuessingProgress(sid, indication, guess, thought)
          /\ UNCHANGED <<last_read, gen, saved, scorer, train, inflight, response>>
    \/ \E sid \in SessionIds, readable \in BOOLEAN :
          AdvanceWagon(sid, readable) /\ UNCHANGED <<last_read, gen, saved, scorer, train, inflight, response>>
    \/ \E max_age_hours \in MaxAges :
          CleanupOldSessions(max_age_hours) /\ UNCHANGED <<last_read, gen, saved, scorer, train, inflight, response>>
    \/ \E sid \in SessionIds : TerminateSession(sid) /\ UNCHANGED <<last_read, gen, saved, scorer, train, inflight, response>>
    \/ Tick /\ UNCHANGED <<last_read, gen, saved, scorer, train, inflight, response>>

Spec == Init /\ [][Next]_vars

\* ------------------------------------------------------------- the reads
\* the registry after get_session(session_id): the method writes nothing
after_get_session_touching(_sessions, sid) ==
    IF sid \in DOMAIN _sessions
    THEN DictSet(_sessions, sid, [_sessions[sid] EXCEPT !.last_active = now])
    ELSE _sessions

after_get_session(_sessions, sid) == _sessions

\* get_session(session_id) as a call
GetSession(sid) ==
    /\ last' = Call("get_session", sid, <<>>, TRUE, get_session(sessions, sid))
    /\ sessions' = after_get_session(sessions, sid)
    /\ last_read' = IF sid \in Live THEN [last_read EXCEPT ![sid] = now]
                    ELSE last_read
    /\ UNCHANGED <<minted, now, adv_calls, sent, guessed, touched, gen, saved, scorer, train,
                   inflight,
                   response>>

\* the registry after get_conversation(session_id, uid): conversations.get
\* creates no entry
after_get_conversation_creating(_sessions, sid, uid) ==
    IF /\ sid \in DOMAIN _sessions
       /\ WagonIdOf[uid].ok
       /\ ~WrongWagon(WagonIdOf[uid].val, _sessions[sid].current_wagon.wagon_id)
    THEN DictSet(_sessions, sid,
             [_sessions[sid] EXCEPT !.current_wagon.conversations =
                  StartConversation(@, uid)])
    ELSE _sessions

after_get_conversation(_sessions, sid, uid) == _sessions

\* get_conversation(session_id, uid) as a call
GetConversation(sid, uid) ==
    /\ last' = Call("get_conversation", sid, uid, TRUE,
                    get_conversation(sessions, sid, uid))
    /\ sessions' = after_get_conversation(sessions, sid, uid)
    /\ UNCHANGED <<minted, now, adv_calls, sent, guessed, touched, last_read, gen, saved, scorer, train,
                   inflight, response>>

\* the service with its reads as calls of their own; the writes are the
\* ones of a client that sends user messages to the characters of the
\* wagons while the dataset is readable
ReadNext ==
    \/ CreateSession /\ UNCHANGED <<last_read, gen, saved, scorer, train, inflight, response>>
    \/ \E sid \in SessionIds, uid \in WellFormedUids, content \in Contents :
          AddMessage(sid, uid, "user", content) /\ UNCHANGED <<last_read, gen, saved, scorer, train, inflight, response>>
    \/ \E sid \in SessionIds, indication \in Contents, guess \in Guesses,
          thought \in Thoughts :
          UpdateGuessingProgress(sid, indication, guess, thought)
          /\ UNCHANGED <<last_read, gen, saved, scorer, train, inflight, response>>
    \/ \E sid \in SessionIds :
          AdvanceWagon(sid, TRUE) /\ UNCHANGED <<last_read, gen, saved, scorer, train, inflight, response>>
    \/ \E max_age_hours \in MaxAges :
          CleanupOldSessions(max_age_hours) /\ UNCHANGED <<last_read, gen, saved, scorer, train, inflight, response>>
    \/ \E sid \in SessionIds : TerminateSession(sid) /\ UNCHANGED <<last_read, gen, saved, scorer, train, inflight, response>>
    \/ Tick /\ UNCHANGED <<last_read, gen, saved, scorer, train, inflight, response>>
    \/ \E sid \in SessionIds : GetSession(sid)
    \/ \E sid \in SessionIds, uid \in Uids : GetConversation(sid, uid)

ReadSpec == Init /\ [][ReadNext]_vars

\* ------------------------------------------------------- two sessions
\* two clients, each with a session of its own, talking to the character of
\* the first wagon and moving on while the dataset is readable
TwoNext ==
    \/ CreateSessionIn(TwoSessionIds) /\ UNCHANGED <<last_read, gen, saved, scorer, train, inflight, response>>
    \/ \E sid \in TwoSessionIds, k \in Players, content \in Contents :
          AddMessage(sid, Uid(0, k), "user", content)
          /\ UNCHANGED <<last_read, gen, saved, scorer, train, inflight, response>>
    \/ \E sid \in TwoSessionIds :
          AdvanceWagon(sid, TRUE) /\ UNCHANGED <<last_read, gen, saved, scorer, train, inflight, response>>
    \/ \E sid \in TwoSessionIds :
          TerminateSession(sid) /\ UNCHANGED <<last_read, gen, saved, scorer, train, inflight, response>>
    \/ Tick /\ UNCHANGED <<last_read, gen, saved, scorer, train, inflight, response>>

TwoSpec == Init /\ [][TwoNext]_vars

\* two sessions: every operation of a client on the first, while the
\* second is created, talked to and guessed on
PairNext ==
    \/ CreateSessionIn(TwoSessionIds) /\ UNCHANGED <<last_read, gen, saved, scorer, train, inflight, response>>
    \/ \E sid \in TwoSessionIds, k \in Players, content \in Contents :
          AddMessageUpTo(1, sid, Uid(0, k), "user", content)
          /\ UNCHANGED <<last_read, gen, saved, scorer, train, inflight, response>>
    \/ \E sid \in TwoSessionIds, indication \in Contents, guess \in Guesses :
          UpdateGuessingProgress(sid, indication, guess, <<"hm">>)
          /\ UNCHANGED <<last_read, gen, saved, scorer, train, inflight, response>>
    \/ \E sid \in SessionIds :
          AdvanceWagon(sid, TRUE) /\ UNCHANGED <<last_read, gen, saved, scorer, train, inflight, response>>
    \/ \E sid \in SessionIds :
          TerminateSession(sid) /\ UNCHANGED <<last_read, gen, saved, scorer, train, inflight, response>>
    \/ \E sid \in SessionIds : GetSession(sid)
    \/ Tick /\ UNCHANGED <<last_read, gen, saved, scorer, train, inflight, response>>

PairSpec == Init /\ [][PairNext]_vars

\* two sessions that leave the registry through the sweep only
ExpiryNext ==
    \/ CreateSessionIn(TwoSessionIds) /\ UNCHANGED <<last_read, gen, saved, scorer, train, inflight, response>>
    \/ \E sid \in TwoSessionIds, k \in Players, content \in Contents :
          AddMessage(sid, Uid(0, k), "user", content)
          /\ UNCHANGED <<last_read, gen, saved, scorer, train, inflight, response>>
    \/ \E sid \in TwoSessionIds :
          AdvanceWagon(sid, TRUE) /\ UNCHANGED <<last_read, gen, saved, scorer, train, inflight, response>>
    \/ \E max_age_hours \in MaxAges :
          CleanupOldSessions(max_age_hours)
          /\ UNCHANGED <<last_read, gen, saved, scorer, train, inflight, response>>
    \/ Tick /\ UNCHANGED <<last_read, gen, saved, scorer, train, inflight, response>>

ExpirySpec == Init /\ [][ExpiryNext]_vars

\* ------------------------------------------------------- the HTTP routes
\* routes/chat.py and routes/wagons.py.  Every route is an async def without
\* an await, so its body runs on the event loop in one piece; the session
\* dependency get_session is a plain def, which FastAPI runs in its thread
\* pool before the body, so other requests can run between the two.

\* a request whose dependency returned the UserSession object; wagon_id is
\* session.current_wagon.wagon_id of that object, which is the object the
\* registry holds for as long as the session is registered
Request(route, sid, uid, pc, wagon_id) ==
    [route |-> route, sid |-> sid, uid |-> uid, pc |-> pc, wagon_id |-> wagon_id]

\* the requests, each seeing the state of the object it holds
Held(requests, _sessions) ==
    [slot \in Slots |->
        IF requests[slot].route # "none" /\ requests[slot].sid \in DOMAIN _sessions
        THEN [requests[slot] EXCEPT
                 !.wagon_id = _sessions[requests[slot].sid].current_wagon.wagon_id]
        ELSE requests[slot]]

Done(slot) == [inflight EXCEPT ![slot] = NoRequest]

\* HTTPException(status_code, detail) and the JSON bodies of the routes
Detail(text) == [kind |-> "detail", detail |-> text]

Response(route, sid, code, body) ==
    [route |-> route, sid |-> sid, code |-> code, body |-> body]

GenerationYieldsToLoop == TRUE

\* chat_service.generate_response(...) is a blocking call: the event loop
\* runs no other request while the reply is generated
GenerationYields == FALSE

LoopFree == GenerationYields \/ \A slot \in Slots : inflight[slot].pc # "generating"

\* the characters the chat requests address
ChatUids == {Uid(i, k) : i \in 0..1, k \in Players} \cup {NoDashUid}

\* the messages one conversation takes over HTTP: two requests in flight,
\* each storing the message of the client and its reply
ChatCap == MaxMsgs + 2

AiResponse == "reply"

\* what generating the reply ends in: the text of the model, no character
\* for the uid, an error of the provider, or the TypeError / AttributeError
\* of a route and a ChatService that come from different sides of the merge
GenerationOutcomes ==
    {"reply", "character_not_found", "provider_error", "signature_error"}

\* Depends(get_session) of a request to one of the session routes
Arrive(slot, route, sid, uid) ==
    /\ LoopFree
    /\ inflight[slot] = NoRequest
    /\ \A other \in Slots : other < slot => inflight[other] # NoRequest
    /\ IF get_session(sessions, sid) = None
       THEN /\ response' = Response(route, sid, 404, Detail("Session not found"))
            /\ UNCHANGED inflight
       ELSE /\ inflight' = [inflight EXCEPT ![slot] =
                   Request(route, sid, uid, "resolved",
                           sessions[sid].current_wagon.wagon_id)]
            /\ UNCHANGED response
    /\ UNCHANGED <<sessions, minted, now, last, adv_calls, sent, guessed,
                   touched, last_read, gen, saved, scorer, train>>

\* chat_with_character up to the call of generate_response
ChatSend(slot) ==
    LET request == inflight[slot]
        w == WagonIdOf[request.uid]
    IN /\ LoopFree
       /\ request.route = "chat"
       /\ request.pc = "resolved"
       /\ IF ~w.ok
          THEN /\ response' = Response("chat", request.sid, 400,
                                       Detail("Invalid UID format"))
               /\ inflight' = Done(slot)
               /\ UNCHANGED <<sessions, minted, now, last, adv_calls, sent,
                              guessed, touched>>
          ELSE IF WrongWagon(w.val, request.wagon_id)
          THEN /\ response' = Response("chat", request.sid, 400,
                    Detail("Cannot chat with character from different wagon"))
               /\ inflight' = Done(slot)
               /\ UNCHANGED <<sessions, minted, now, last, adv_calls, sent,
                              guessed, touched>>
          ELSE /\ AddMessageUpTo(ChatCap - 1, request.sid, request.uid,
                                 "user", "hello")
               /\ IF last'.ret.kind = "Conversation"
                  THEN /\ inflight' = Held([inflight EXCEPT
                                               ![slot].pc = "generating"],
                                           sessions')
                       /\ UNCHANGED response
                  ELSE /\ response' = Response("chat", request.sid, 500,
                                          Detail("Failed to process message"))
                       /\ inflight' = Done(slot)
       /\ UNCHANGED <<last_read, gen, saved, scorer, train>>

\* chat_with_character from generate_response on
ChatReply(slot, outcome) ==
    LET request == inflight[slot]
    IN /\ request.route = "chat"
       /\ request.pc = "generating"
       /\ inflight' = Done(slot)
       /\ IF outcome = "reply"
          THEN /\ AddMessageUpTo(ChatCap, request.sid, request.uid,
                                 "assistant", AiResponse)
               /\ response' = Response("chat", request.sid, 200,
                                  [kind |-> "chat", uid |-> request.uid,
                                   response |-> AiResponse])
          ELSE /\ response' = Response("chat", request.sid,
                                  IF outcome = "character_not_found"
                                  THEN 404 ELSE 500,
                                  Detail(outcome))
               /\ UNCHANGED <<sessions, minted, now, last, adv_calls, sent,
                              guessed, touched>>
       /\ UNCHANGED <<last_read, gen, saved, scorer, train>>

\* advance_to_next_wagon
AdvanceBody(slot) ==
    LET request == inflight[slot]
    IN /\ LoopFree
       /\ request.route = "advance"
       /\ request.pc = "resolved"
       /\ AdvanceWagon(request.sid, TRUE)
       /\ inflight' = Held(Done(slot), sessions')
       /\ response' =
            IF last'.ret = ReturnedBool(TRUE)
            THEN Response("advance", request.sid, 200,
                     [kind |-> "advance",
                      current_wagon |-> sessions'[request.sid].current_wagon.wagon_id])
            ELSE Response("advance", request.sid, 400,
                     Detail("Cannot advance to next wagon"))
       /\ UNCHANGED <<last_read, gen, saved, scorer, train>>

\* terminate_session (the route)
TerminateBody(slot) ==
    LET request == inflight[slot]
    IN /\ LoopFree
       /\ request.route = "terminate"
       /\ request.pc = "resolved"
       /\ TerminateSession(request.sid)
       /\ inflight' = Done(slot)
       /\ response' = Response("terminate", request.sid, 200,
                          [kind |-> "terminated", session_id |-> request.sid])
       /\ UNCHANGED <<last_read, gen, saved, scorer, train>>

\* create_session (the route)
NewSession ==
    /\ LoopFree
    /\ CreateSession
    /\ response' = Response("create_session", last'.sid, 200,
                       [kind |-> "UserSession", session |-> last'.ret.session])
    /\ UNCHANGED <<last_read, gen, saved, scorer, train, inflight>>

\* what FileManager.load_session_data(session_id, session.default_game)
\* ends in: the three files loaded, FileNotFoundError, or another exception
\* (a UserSession without a default_game attribute among them)
LoadOutcomes == {"loaded", "file_not_found", "exception"}

\* get_wagons
GetWagons(sid, outcome) ==
    /\ LoopFree
    /\ response' =
         IF get_session(sessions, sid) = None
         THEN Response("get_wagons", sid, 404, Detail("Session not found"))
         ELSE IF outcome = "file_not_found"
         THEN Response("get_wagons", sid, 404, Detail("No data found"))
         ELSE IF outcome = "exception"
         THEN Response("get_wagons", sid, 500, Detail("Error reading wagons data"))
         ELSE Response("get_wagons", sid, 200,
                  [kind |-> "wagons", wagons |-> wagons_data])
    /\ UNCHANGED <<sessions, minted, now, last, adv_calls, sent, guessed,
                   touched, last_read, gen, saved, scorer, train, inflight>>

HttpNext ==
    \/ NewSession
    \/ \E slot \in Slots, sid \in SessionIds, uid \in ChatUids :
          Arrive(slot, "chat", sid, uid)
    \/ \E slot \in Slots, sid \in SessionIds, route \in {"advance", "terminate"} :
          Arrive(slot, route, sid, <<>>)
    \/ \E slot \in Slots : ChatSend(slot)
    \/ \E slot \in Slots, outcome \in GenerationOutcomes : ChatReply(slot, outcome)
    \/ \E slot \in Slots : AdvanceBody(slot)
    \/ \E slot \in Slots : TerminateBody(slot)
    \/ \E sid \in SessionIds, outcome \in LoadOutcomes : GetWagons(sid, outcome)
    \/ \E max_age_hours \in MaxAges :
          /\ LoopFree
          /\ CleanupOldSessions(max_age_hours)
          /\ UNCHANGED <<last_read, gen, saved, scorer, train, inflight, response>>
    \/ Tick /\ UNCHANGED <<last_read, gen, saved, scorer, train, inflight, response>>

HttpSpec == Init /\ [][HttpNext]_vars

\* ------------------------------------------------ the calls, in two steps
\* A mutating classmethod of SessionService first reads the session
\* (session = cls.get_session(session_id)) and at its end stores it
\* (cls.update_session(session)).  The two ends of a call are separate steps
\* here, so that what may run in between is a matter of scheduling.

Mutations == {"add_message", "update_guessing_progress", "advance_wagon"}

CallsInterleave == TRUE

\* the classmethods are plain functions without an await, called from route
\* bodies on the event loop, and nothing in the program runs
\* cleanup_old_sessions or any other call on a second thread
CallsYield == FALSE

NoCallMidway == CallsYield \/ \A slot \in Slots : inflight[slot].pc # "read"

\* a call up to its read of the session; on an id that is not in the
\* registry the call ends there
BeginCall(slot, op, sid, uid) ==
    /\ NoCallMidway
    /\ inflight[slot] = NoRequest
    /\ \A other \in Slots : other < slot => inflight[other] # NoRequest
    /\ IF get_session(sessions, sid) = None
       THEN /\ CASE op = "add_message" -> AddMessage(sid, uid, "user", "hello")
                 [] op = "update_guessing_progress" ->
                        UpdateGuessingProgress(sid, "hello", "gold", <<"hm">>)
                 [] op = "advance_wagon" -> AdvanceWagon(sid, TRUE)
            /\ UNCHANGED inflight
       ELSE /\ inflight' = [inflight EXCEPT ![slot] =
                   Request(op, sid, uid, "read",
                           sessions[sid].current_wagon.wagon_id)]
            /\ UNCHANGED <<sessions, minted, now, last, adv_calls, sent,
                           guessed, touched>>
    /\ UNCHANGED <<last_read, gen, saved, scorer, train, response>>

\* the call from its read on, through update_session
EndCall(slot) ==
    LET request == inflight[slot]
    IN /\ request.pc = "read"
       /\ CASE request.route = "add_message" ->
                   AddMessage(request.sid, request.uid, "user", "hello")
            [] request.route = "update_guessing_progress" ->
                   UpdateGuessingProgress(request.sid, "hello", "gold", <<"hm">>)
            [] request.route = "advance_wagon" ->
                   AdvanceWagon(request.sid, TRUE)
       /\ inflight' = Held(Done(slot), sessions')
       /\ UNCHANGED <<last_read, gen, saved, scorer, train, response>>

MidCallNext ==
    \/ /\ NoCallMidway
       /\ CreateSession
       /\ UNCHANGED <<last_read, gen, saved, scorer, train, inflight, response>>
    \/ \E slot \in Slots, sid \in SessionIds, uid \in WellFormedUids :
          BeginCall(slot, "add_message", sid, uid)
    \/ \E slot \in Slots, sid \in SessionIds,
          op \in {"update_guessing_progress", "advance_wagon"} :
          BeginCall(slot, op, sid, <<>>)
    \/ \E slot \in Slots : EndCall(slot)
    \/ \E max_age_hours \in MaxAges :
          /\ NoCallMidway
          /\ CleanupOldSessions(max_age_hours)
          /\ UNCHANGED <<last_read, gen, saved, scorer, train, inflight, response>>
    \/ \E sid \in SessionIds :
          /\ NoCallMidway
          /\ TerminateSession(sid)
          /\ UNCHANGED <<last_read, gen, saved, scorer, train, inflight, response>>
    \/ Tick /\ UNCHANGED <<last_read, gen, saved, scorer, train, inflight, response>>

MidCallSpec == Init /\ [][MidCallNext]_vars

\* ------------------------------------------------------ the guess generator
\* xs[:k]
SliceTo(xs, k) == SubSeq(xs, 1, Min(k, Len(xs)))

\* xs[-k:], the k most recent elements of a history
SliceLast(xs, k) == SubSeq(xs, Len(xs) - Min(k, Len(xs)) + 1, Len(xs))

\* the slices generate takes of the two histories
GuessWindow == 3
IndicationWindow == 5

\* sub in s (sub not empty)
Contains(s, sub) ==
    \E i \in 1..(Len(s) - Len(sub) + 1) : SubSeq(s, i, i + Len(sub) - 1) = sub

\* s.replace(old, new) for old not empty: the non-overlapping occurrences
\* of old, found left to right in s, each replaced by new
RECURSIVE Replace(_, _, _)
Replace(s, old, new) ==
    IF Len(s) < Len(old) THEN s
    ELSE IF SubSeq(s, 1, Len(old)) = old
    THEN new \o Replace(SubSeq(s, Len(old) + 1, Len(s)), old, new)
    ELSE <<s[1]>> \o Replace(Tail(s), old, new)

Mask == <<"*", "*", "*", "*", "*", "*", "*">>

\* s.replace(old, new, 1): only the first occurrence
ReplaceFirst(s, old, new) ==
    IF ~Contains(s, old) THEN s
    ELSE LET i == CHOOSE i \in 1..Len(s) :
                      /\ SubSeq(s, i, i + Len(old) - 1) = old
                      /\ \A j \in 1..(i - 1) : SubSeq(s, j, j + Len(old) - 1) # old
         IN SubSeq(s, 1, i - 1) \o new \o SubSeq(s, i + Len(old), Len(s))

\* filter_password(indication, password)
filter_password_once(indication, password) ==
    ReplaceFirst(indication, password, Mask)

filter_password(indication, password) == Replace(indication, password, Mask)

\* the texts a player types, over two letters and the character of the mask
IndicationChars == {"a", "b", "*"}

RECURSIVE Texts(_)
Texts(n) == IF n = 0 THEN {<<>>}
            ELSE Texts(n - 1) \cup
                 {Append(t, c) : t \in {u \in Texts(n - 1) : Len(u) = n - 1},
                                 c \in IndicationChars}

Indications == Texts(MaxIndicationLen)

\* the passcode of the wagon: one word, letters only, as the dataset
\* generator asks for
Passwords == {<<"a">>, <<"a", "a">>, <<"a", "b">>}

\* the stored histories after g guesses: the i-th guess and the i-th
\* indication carry i
GuessHistory(g) == [i \in 1..g |-> Str(i)]

IndicationHistory(g) == [i \in 1..g |-> Message("user", Str(i))]

\* generate(previous_guesses, theme, previous_indications,
\*          current_indication, password) has been called
GenerateCalls ==
    {[pc |-> "called",
      previous_guesses |-> GuessHistory(g),
      theme |-> wagons_data[1].theme,
      previous_indications |-> IndicationHistory(n),
      current_indication |-> indication,
      password |-> password] :
        g \in 0..MaxHistory, n \in 0..MaxHistory,
        indication \in Indications, password \in Passwords}

\* the body of generate up to self.chain.invoke(payload)
Generate ==
    /\ gen.pc = "called"
    /\ LET previous_indications ==
               [i \in 1..Len(gen.previous_indications) |->
                    gen.previous_indications[i].content]
           current_indication ==
               filter_password(gen.current_indication, gen.password)
       IN gen' = [pc |-> "invoked",
                  previous_guesses |-> gen.previous_guesses,
                  theme |-> gen.theme,
                  previous_indications |-> gen.previous_indications,
                  current_indication |-> gen.current_indication,
                  password |-> gen.password,
                  payload |->
                      [previous_guesses |->
                           SliceTo(gen.previous_guesses, GuessWindow),
                       theme |-> gen.theme,
                       previous_indications |->
                           SliceTo(previous_indications, IndicationWindow),
                       current_indication |-> current_indication]]
    /\ UNCHANGED <<sessions, minted, now, last, adv_calls, sent, guessed,
                   touched, last_read, inflight, response, saved, scorer,
                   train>>

GuessInit == Registry0 /\ gen \in GenerateCalls /\ scorer = Idle /\ train = Idle

GuessNext == Generate

GuessSpec == GuessInit /\ [][GuessNext]_vars

\* the guess requests of one wagon, one after the other: guess_password
\* reads the stored histories, calls generate, and hands the message of the
\* client to update_guessing_progress, which stores it as it came
SeqIndications == Texts(MaxIndicationLen - 1)

FirstCalls ==
    {[pc |-> "called",
      previous_guesses |-> <<>>,
      theme |-> wagons_data[1].theme,
      previous_indications |-> <<>>,
      current_indication |-> indication,
      password |-> password] :
        indication \in SeqIndications, password \in Passwords}

\* update_guessing_progress(session_id, chat_message.message, guess, ...)
\* of the request that was served, then generate of the next request
NextGuess(indication) ==
    /\ gen.pc = "invoked"
    /\ Len(gen.previous_guesses) < MaxGuesses
    /\ gen' = [pc |-> "called",
               previous_guesses |->
                   Append(gen.previous_guesses,
                          Str(Len(gen.previous_guesses) + 1)),
               theme |-> gen.theme,
               previous_indications |->
                   Append(gen.previous_indications,
                          Message("user", gen.current_indication)),
               current_indication |-> indication,
               password |-> gen.password]
    /\ UNCHANGED <<sessions, minted, now, last, adv_calls, sent, guessed,
                   touched, last_read, inflight, response, saved, scorer,
                   train>>

GuessSeqInit == Registry0 /\ gen \in FirstCalls /\ scorer = Idle /\ train = Idle

GuessSeqNext ==
    \/ Generate
    \/ \E indication \in SeqIndications : NextGuess(indication)

GuessSeqSpec == GuessSeqInit /\ [][GuessSeqNext]_vars

\* ---------------------------------------------------- the similarity scorer
\* ScoringService.is_similar(password, guess, theme)

\* self.max_retries
max_retries == 3

\* what one call of client.chat.complete and the parse of its reply end in:
\* a JSON object with a score, a JSON value without the key 'score', a text
\* orjson.loads rejects, or an exception of the client
Scored(score) == [kind |-> "score", score |-> score]

ScorerReplies ==
    {Scored("0.1"), Scored("0.9"), [kind |-> "no_score"],
     [kind |-> "malformed"], [kind |-> "provider_error"]}

RECURSIVE ReplySeqs(_)
ReplySeqs(n) ==
    IF n = 0 THEN {<<>>}
    ELSE {Append(rs, r) : rs \in ReplySeqs(n - 1), r \in ScorerReplies}

\* is_similar has been called; replies: what the provider would answer to
\* each attempt
ScorerCalls ==
    {[pc |-> "calling", attempt |-> 0, replies |-> rs, asked |-> 0] :
        rs \in ReplySeqs(max_retries)}

CanRetryAlways(attempt) == TRUE

\* if attempt < self.max_retries - 1
CanRetry(attempt) == attempt < max_retries - 1

\* one pass of the body of for attempt in range(self.max_retries), and the
\* return 0.5 behind the loop
Attempt ==
    /\ scorer.pc = "calling"
    /\ IF scorer.attempt >= max_retries
       THEN scorer' = [scorer EXCEPT !.pc = "returned"] @@ [result |-> "0.5"]
       ELSE LET reply == scorer.replies[scorer.attempt + 1]
                tried == [scorer EXCEPT !.asked = @ + 1]
            IN CASE reply.kind = "score" ->
                      scorer' = [tried EXCEPT !.pc = "returned"]
                                   @@ [result |-> reply.score]
                 [] reply.kind = "no_score" ->
                      scorer' = [tried EXCEPT !.pc = "raised"]
                                   @@ [result |-> "KeyError"]
                 [] reply.kind = "provider_error" ->
                      scorer' = [tried EXCEPT !.pc = "raised"]
                                   @@ [result |-> "SDKError"]
                 [] reply.kind = "malformed" ->
                      IF CanRetry(scorer.attempt)
                      THEN scorer' = [tried EXCEPT !.attempt = @ + 1]
                      ELSE scorer' = [tried EXCEPT !.pc = "raised"]
                                        @@ [result |-> "JSONDecodeError"]
    /\ UNCHANGED <<sessions, minted, now, last, adv_calls, sent, guessed,
                   touched, last_read, gen, inflight, response, saved, train>>

ScorerInit == Registry0 /\ gen = Idle /\ scorer \in ScorerCalls /\ train = Idle

ScorerSpec == ScorerInit /\ [][Attempt]_vars

\* ------------------------------------------------------ the train generator
\* GenerateTrainService and convert.py.  The provider's replies are inputs
\* of a call: the list of passcodes (of whatever length the provider chose)
\* or an error text, and for each passcode a list of passengers or an error
\* text.

Ok(v) == [ok |-> TRUE, val |-> v]
Failed(e) == [ok |-> FALSE, err |-> e]

PasscodeList(k) == [i \in 1..k |-> <<"p">> \o Str(i)]
PassengerList(n) == [i \in 1..n |-> [name |-> <<"n">> \o Str(i)]]

PassengerReplies ==
    {Failed("Failed to decode the response. Please try again.")}
       \cup {Ok(PassengerList(n)) : n \in 0..MaxPassengers}

RECURSIVE PassengerReplySeqs(_)
PassengerReplySeqs(k) ==
    IF k = 0 THEN {<<>>}
    ELSE {Append(rs, r) : rs \in PassengerReplySeqs(k - 1), r \in PassengerReplies}

\* what the provider answers during one generate_train call
Providers ==
    {[passcodes |-> Failed("Failed to decode the response. Please try again."),
      passengers |-> <<>>]}
       \cup UNION {{[passcodes |-> Ok(PasscodeList(k)), passengers |-> rs] :
                       rs \in PassengerReplySeqs(k)} : k \in 0..NumWagons}

generate_wagon_passcodes(num_wagons, reply) ==
    IF num_wagons <= 0 \/ num_wagons > 10
    THEN Failed("Please provide a valid number of wagons (1-10).")
    ELSE reply

TutorialWagon ==
    [id |-> 0, theme |-> "Tutorial (Start)",
     passcode |-> <<"s", "t", "a", "r", "t">>, passengers |-> <<>>]

GeneratedWagonIdFromZero(i) == i

\* "id": i + 1, for i, passcode in enumerate(passcodes)
GeneratedWagonId(i) == i + 1

\* generate_train_json, before json.dumps
generate_train_json(theme, num_wagons, provider) ==
    LET passcodes == generate_wagon_passcodes(num_wagons, provider.passcodes)
    IN IF ~passcodes.ok THEN Raised("ValueError")
       ELSE IF \E i \in 1..Len(passcodes.val) : ~provider.passengers[i].ok
       THEN Raised("ValueError")
       ELSE [kind |-> "wagons",
             wagons |-> <<TutorialWagon>> \o
                 [i \in 1..Len(passcodes.val) |->
                    [id |-> GeneratedWagonId(i - 1),
                     theme |-> theme,
                     passcode |-> passcodes.val[i],
                     passengers |-> provider.passengers[i].val]]]

\* f"wagon-{wagon_id}" and f"player-{i}"
WagonKey(wagon_id) == <<"w", "a", "g", "o", "n", "-">> \o Str(wagon_id)
PlayerKey(i) == <<"p", "l", "a", "y", "e", "r", "-">> \o Str(i)

convert_wagon_to_three_jsons(wagon_data) ==
    LET passengers == wagon_data.passengers
    IN [names |->
          [wagonId |-> WagonKey(wagon_data.id),
           players |-> [i \in 1..Len(passengers) |->
                          [playerId |-> PlayerKey(i),
                           fullName |-> passengers[i].name]]],
        player_details |->
          [wagonId |-> WagonKey(wagon_data.id),
           players |-> [i \in 1..Len(passengers) |->
                          [playerId |-> PlayerKey(i),
                           profile |-> passengers[i]]]],
        wagon |->
          [id |-> wagon_data.id,
           theme |-> wagon_data.theme,
           passcode |-> wagon_data.passcode,
           people |-> [i \in 1..Len(passengers) |->
                         [uid |-> Uid(wagon_data.id, i), items |-> <<>>]]]]

\* three lists, one entry per wagon, in the order of the wagons
convert_and_return_jsons(wagons) ==
    [all_names |-> [p \in 1..Len(wagons) |->
                      convert_wagon_to_three_jsons(wagons[p]).names],
     all_player_details |-> [p \in 1..Len(wagons) |->
                      convert_wagon_to_three_jsons(wagons[p]).player_details],
     all_wagons |-> [p \in 1..Len(wagons) |->
                      convert_wagon_to_three_jsons(wagons[p]).wagon]]

\* value[key] with a str key: a list has no such index
GetItem(value, key) ==
    IF value.kind = "dict" /\ key \in DOMAIN value.items
    THEN Ok(value.items[key])
    ELSE Failed(IF value.kind = "dict" THEN "KeyError" ELSE "TypeError")

\* generate_train: the lists convert_and_return_jsons returned are indexed
\* with "wagons" for the summary of the log; every exception becomes
\* HTTPException(500)
generate_train(theme, num_wagons, provider) ==
    LET wagons_json == generate_train_json(theme, num_wagons, provider)
    IN IF wagons_json.kind = "raised" THEN Raised("HTTPException")
       ELSE LET converted == convert_and_return_jsons(wagons_json.wagons)
            IN IF ~GetItem(JsonList(converted.all_wagons), "wagons").ok
               THEN Raised("HTTPException")
               ELSE [kind |-> "train", names |-> converted.all_names,
                     player_details |-> converted.all_player_details,
                     wagons |-> converted.all_wagons]

Themes == {"space"}

TrainCalls ==
    {[pc |-> "called", theme |-> theme, num_wagons |-> num_wagons,
      provider |-> provider] :
        theme \in Themes, num_wagons \in {1, NumWagons}, provider \in Providers}

\* wagons_json = self.generate_train_json(theme, num_wagons, 2, 10)
GenerateTrainJson ==
    /\ train.pc = "called"
    /\ LET wagons_json == generate_train_json(train.theme, train.num_wagons,
                                              train.provider)
       IN train' = IF wagons_json.kind = "raised"
                   THEN [train EXCEPT !.pc = "ended"]
                           @@ [result |-> Raised("HTTPException")]
                   ELSE [train EXCEPT !.pc = "generated"]
                           @@ [wagons |-> wagons_json.wagons]
    /\ UNCHANGED <<sessions, minted, now, last, adv_calls, sent, guessed,
                   touched, last_read, gen, inflight, response, saved, scorer>>

\* all_names, all_player_details, all_wagons = convert_and_return_jsons(wagons)
ConvertAndReturnJsons ==
    /\ train.pc = "generated"
    /\ train' = [train EXCEPT !.pc = "converted"]
                   @@ [converted |-> convert_and_return_jsons(train.wagons)]
    /\ UNCHANGED <<sessions, minted, now, last, adv_calls, sent, guessed,
                   touched, last_read, gen, inflight, response, saved, scorer>>

\* the rest of generate_train: the summary of the log and the return
ReturnTrain ==
    /\ train.pc = "converted"
    /\ train' = [pc |-> "ended", theme |-> train.theme,
                 num_wagons |-> train.num_wagons, provider |-> train.provider,
                 result |-> generate_train(train.theme, train.num_wagons,
                                           train.provider)]
    /\ UNCHANGED <<sessions, minted, now, last, adv_calls, sent, guessed,
                   touched, last_read, gen, inflight, response, saved, scorer>>

TrainGenInit == Registry0 /\ gen = Idle /\ scorer = Idle /\ train \in TrainCalls

TrainGenNext == GenerateTrainJson \/ ConvertAndReturnJsons \/ ReturnTrain

TrainGenSpec == TrainGenInit /\ [][TrainGenNext]_vars

\* ------------------------------------------- the data scope of a session
\* FileManager: data/default/ and data/<session_id>/, each with names.json,
\* player_details.json and wagons.json.  A directory without files stands
\* for one that does not exist.

\* what a deployment may hold in data/default/: nothing, or a train of up to
\* as many wagons as data/wagons.json has
DefaultDirs ==
    {EmptyDict} \cup {DataFiles(<<>>, <<>>, SubSeq(wagons_data, 1, k)) :
                         k \in 1..NumWagons}

\* get_data_directory(session_id, default_game)
get_data_directory(session_id, default_game) ==
    IF default_game THEN saved.default ELSE saved.session[session_id]

\* load_session_data(session_id, default_game)
load_session_data(session_id, default_game) ==
    LET data_dir == get_data_directory(session_id, default_game)
    IN IF DOMAIN data_dir = {} THEN Raised("FileNotFoundError")
       ELSE IF \E i \in 1..3 : FileNames[i] \notin DOMAIN data_dir
       THEN Raised("FileNotFoundError")
       ELSE [kind |-> "data", names |-> data_dir[FileNames[1]],
             player_details |-> data_dir[FileNames[2]],
             wagons |-> data_dir[FileNames[3]]]

\* save_session_data, written: the files written before a write failed
\* (3: none failed), in the order of files_to_save
save_session_data(session_id, names, player_details, wagons, written) ==
    LET files == DataFiles(names, player_details, wagons)
    IN [s \in DOMAIN saved.session |->
          IF s # session_id THEN saved.session[s]
          ELSE [name \in (DOMAIN saved.session[s])
                           \cup {FileNames[i] : i \in 1..written} |->
                   IF \E i \in 1..written : FileNames[i] = name
                   THEN files[name] ELSE saved.session[s][name]]]

\* get_wagons (the route), reading the data scope of the session
GetWagonsOfScope(sid) ==
    /\ response' =
         IF get_session(sessions, sid) = None
         THEN Response("get_wagons", sid, 404, Detail("Session not found"))
         ELSE LET data == load_session_data(sid, sessions[sid].default_game)
              IN IF data.kind = "raised"
                 THEN Response("get_wagons", sid, 404, Detail("No data found"))
                 ELSE Response("get_wagons", sid, 200,
                          [kind |-> "wagons", wagons |-> data.wagons.items])
    /\ UNCHANGED <<sessions, minted, now, last, adv_calls, sent, guessed,
                   touched, last_read, gen, saved, scorer, train, inflight>>

\* ------------------------------------------- the train generation route
\* get_generated_train(session_id, number_of_wagons, theme)

NumberTexts == {<<"0">>, <<"1">>, <<"6">>, <<"7">>, <<"x">>}

\* the provider's answers of a request: no passcodes, or one wagon beside
\* the tutorial wagon, without passengers or full
RouteProviders ==
    {provider \in Providers :
        /\ Len(provider.passengers) <= 1
        /\ \A i \in 1..Len(provider.passengers) :
              provider.passengers[i].ok =>
                 Len(provider.passengers[i].val) \in {0, MaxPassengers}}

ExceedsLimitNever(number_of_wagons) == FALSE

\* if number_of_wagons > 6
ExceedsLimit(number_of_wagons) == number_of_wagons > 6

Rejected(code, text, session) ==
    [code |-> code, body |-> Detail(text), session |-> session,
     stored |-> FALSE, written |-> 0, attempted |-> FALSE]

\* the body of the route from the int() on, for the session object that
\* get_session returned: the response, the object, whether update_session
\* was reached, how many files were written, and whether generate_train was
\* called
rest_of_get_generated_train(session, number_of_wagons, theme, provider, written) ==
    LET n == ParseInt(number_of_wagons)
    IN IF ~n.ok
       THEN Rejected(400, "number_of_wagons must be an integer", session)
       ELSE IF n.val <= 0
       THEN Rejected(400, "number_of_wagons must be greater than 0", session)
       ELSE IF ExceedsLimit(n.val)
       THEN Rejected(400, "number_of_wagons cannot exceed 6", session)
       ELSE LET generated == generate_train(theme, n.val, provider)
                failed == [code |-> 500,
                           body |-> Detail("Failed to generate train"),
                           session |-> session, stored |-> FALSE,
                           written |-> 0, attempted |-> TRUE]
            IN IF generated.kind = "raised" THEN failed
               ELSE IF written < 3 THEN [failed EXCEPT !.written = written]
               ELSE IF ~GetItem(JsonList(generated.names), "names").ok
               THEN [failed EXCEPT !.written = 3]
               ELSE [code |-> 200,
                     body |-> [kind |-> "train", wagons |-> generated.wagons],
                     session |-> [session EXCEPT !.default_game = FALSE],
                     stored |-> TRUE, written |-> 3, attempted |-> TRUE]

\* the files of the session after the request
FilesAfter(sid, theme, n, provider, written) ==
    LET generated == generate_train(theme, n, provider)
    IN IF written = 0 \/ generated.kind = "raised" THEN saved.session
       ELSE save_session_data(sid, generated.names, generated.player_details,
                              generated.wagons, written)

\* the registry after the rest of a call: update_session stores the object,
\* and without it the changes made to the object show in the registry only
\* while the object is still in it
AfterCall(sid, rest) ==
    IF rest.stored THEN update_session(rest.session)
    ELSE IF sid \in Live THEN DictSet(sessions, sid, rest.session)
    ELSE sessions

\* the route from the int() on, for the session object it holds
FinishGeneratedTrain(sid, session, number_of_wagons, theme, provider, written) ==
    LET rest == rest_of_get_generated_train(session, number_of_wagons,
                                            theme, provider, written)
        n == ParseInt(number_of_wagons)
    IN /\ response' = Response("get_generated_train", sid, rest.code, rest.body)
       /\ sessions' = AfterCall(sid, rest)
       /\ touched' = IF rest.stored THEN [touched EXCEPT ![sid] = now]
                     ELSE touched
       /\ saved' = [saved EXCEPT !.session =
                      IF rest.attempted
                      THEN FilesAfter(sid, theme, n.val, provider, rest.written)
                      ELSE @]
       /\ train' = IF rest.attempted
                   THEN [pc |-> "ended", theme |-> theme, num_wagons |-> n.val,
                         provider |-> provider,
                         result |-> generate_train(theme, n.val, provider)]
                   ELSE Idle

GetGeneratedTrain(sid, number_of_wagons, theme, provider, written) ==
    IF get_session(sessions, sid) = None
    THEN /\ response' = Response("get_generated_train", sid, 404,
                                 Detail("Session not found"))
         /\ train' = Idle
         /\ UNCHANGED <<sessions, minted, now, last, adv_calls, sent, guessed,
                        touched, last_read, gen, saved, scorer, inflight>>
    ELSE /\ FinishGeneratedTrain(sid, sessions[sid], number_of_wagons, theme,
                                 provider, written)
         /\ UNCHANGED <<minted, now, last, adv_calls, sent, guessed,
                        last_read, gen, scorer, inflight>>

TrainInit ==
    /\ Memory0
    /\ saved \in {[default |-> dir, session |-> [s \in TwoSessionIds |-> EmptyDict]] :
                     dir \in DefaultDirs}
    /\ gen = Idle /\ scorer = Idle /\ train = Idle

TrainNext ==
    \/ CreateSession
         /\ UNCHANGED <<last_read, gen, saved, scorer, train, inflight, response>>
    \/ \E sid \in SessionIds, number_of_wagons \in NumberTexts, theme \in Themes,
          provider \in RouteProviders, written \in 0..3 :
          GetGeneratedTrain(sid, number_of_wagons, theme, provider, written)
    \/ \E sid \in SessionIds : GetWagonsOfScope(sid)
    \/ \E sid \in SessionIds, readable \in BOOLEAN :
          /\ AdvanceWagon(sid, readable)
          /\ UNCHANGED <<last_read, gen, saved, scorer, train, inflight, response>>
    \/ \E sid \in SessionIds :
          /\ TerminateSession(sid)
          /\ UNCHANGED <<last_read, gen, saved, scorer, train, inflight, response>>

TrainSpec == TrainInit /\ [][TrainNext]_vars

\* --------------------------------------- the calls, on the object they hold
\* A mutating call reads the session object once (session =
\* cls.get_session(session_id)), changes that object and hands it to
\* update_session, which stores it under its id whether or not the id is
\* still in the registry.  Here the call keeps the object between its two
\* ends; while the object is in the registry the call and the registry see
\* the same object.

Holding(requests, _sessions) ==
    [slot \in Slots |->
        IF requests[slot].pc = "read" /\ requests[slot].sid \in DOMAIN _sessions
        THEN [requests[slot] EXCEPT
                 !.session = _sessions[requests[slot].sid],
                 !.wagon_id = _sessions[requests[slot].sid].current_wagon.wagon_id]
        ELSE requests[slot]]

\* add_message behind its get_session
rest_of_add_message(session, uid, role, content) ==
    LET w == WagonIdOf[uid]
    IN IF ~w.ok
       THEN [session |-> session, stored |-> FALSE, ret |-> Raised(w.err)]
       ELSE IF WrongWagon(w.val, session.current_wagon.wagon_id)
       THEN [session |-> session, stored |-> FALSE, ret |-> None]
       ELSE LET started == StartConversation(session.current_wagon.conversations, uid)
                conversation ==
                    [started[uid] EXCEPT
                        !.messages = AppendMessage(@, Message(role, content)),
                        !.last_interaction = now]
            IN [session |-> [session EXCEPT !.current_wagon.conversations =
                                                DictSet(started, uid, conversation)],
                stored |-> TRUE, ret |-> ReturnedConversation(conversation)]

\* update_guessing_progress behind its get_session
rest_of_update_guessing_progress(session, indication, guess, thought) ==
    LET s1 == [session EXCEPT
                 !.guessing_progress.guesses = Append(@, guess),
                 !.guessing_progress.indications =
                     Append(@, Message("user", indication))]
        convs == s1.current_wagon.conversations
        started == IF MainCharacter \notin DOMAIN convs
                   THEN DictSet(convs, MainCharacter, Conversation(MainCharacter))
                   ELSE convs
        s2 == [s1 EXCEPT !.current_wagon.conversations =
                 [started EXCEPT ![MainCharacter].messages =
                     Append(@, Message("user", indication))]]
    IN IF Len(thought) = 0
       THEN [session |-> s2, stored |-> FALSE, ret |-> Raised("IndexError")]
       ELSE [session |-> [s2 EXCEPT
                            !.current_wagon.conversations[MainCharacter].messages =
                                Append(@, Message("assistant", thought[1]))],
             stored |-> TRUE, ret |-> None]

\* advance_wagon behind its get_session
rest_of_advance_wagon(session, readable) ==
    LET loaded == LoadWagons(readable)
        next_wagon_id == NextWagonId(session.current_wagon.wagon_id)
    IN IF ~loaded.ok \/ OutOfBounds(next_wagon_id, loaded.max_wagon_id)
       THEN [session |-> session, stored |-> FALSE, ret |-> ReturnedBool(FALSE)]
       ELSE [session |-> SetUpNextWagon(session, next_wagon_id),
             stored |-> TRUE, ret |-> ReturnedBool(TRUE)]

\* the provider's answer to a request that is held: the tutorial wagon and
\* one wagon without passengers
HeldProvider == [passcodes |-> Ok(PasscodeList(1)),
                 passengers |-> <<Ok(PassengerList(0))>>]

\* the characters the held calls write to: those of the first two wagons
HeldUids == {Uid(i, k) : i \in 0..1, k \in Players}

\* get_session at the head of a call
ReadSession(slot, op, sid, uid) ==
    /\ NoCallMidway
    /\ inflight[slot] = NoRequest
    /\ \A other \in Slots : other < slot => inflight[other] # NoRequest
    /\ IF get_session(sessions, sid) = None
       THEN /\ IF op = "get_generated_train"
               THEN /\ response' = Response(op, sid, 404, Detail("Session not found"))
                    /\ UNCHANGED last
               ELSE /\ last' = Call(op, sid, uid, TRUE,
                                    IF op = "advance_wagon"
                                    THEN ReturnedBool(FALSE) ELSE None)
                    /\ UNCHANGED response
            /\ UNCHANGED inflight
       ELSE /\ inflight' = [inflight EXCEPT ![slot] =
                   Request(op, sid, uid, "read",
                           sessions[sid].current_wagon.wagon_id)
                      @@ [session |-> sessions[sid]]]
            /\ UNCHANGED <<last, response>>
    /\ UNCHANGED <<sessions, minted, now, adv_calls, sent, guessed, touched,
                   last_read, gen, saved, scorer, train>>

\* the call from its read on, through update_session; the histories of the
\* calls by id (adv_calls, sent, guessed) are not kept here
StoreSession(slot, thought, provider) ==
    LET request == inflight[slot]
        session == request.session
    IN /\ request.pc = "read"
       /\ IF request.route = "get_generated_train"
          THEN /\ FinishGeneratedTrain(request.sid, session, <<"1">>,
                                       "space", provider, 3)
               /\ UNCHANGED last
          ELSE LET rest ==
                     CASE request.route = "add_message" ->
                            rest_of_add_message(session, request.uid, "user", "hello")
                       [] request.route = "update_guessing_progress" ->
                            rest_of_update_guessing_progress(session, "hello",
                                                             "gold", thought)
                       [] request.route = "advance_wagon" ->
                            rest_of_advance_wagon(session, TRUE)
               IN /\ request.route = "add_message" =>
                        IF request.uid \in DOMAIN session.current_wagon.conversations
                        THEN Len(session.current_wagon.conversations[request.uid].messages)
                                < MaxMsgs
                        ELSE TRUE
                  /\ request.route = "update_guessing_progress" =>
                        Len(session.guessing_progress.guesses) < MaxGuesses
                  /\ sessions' = AfterCall(request.sid, rest)
                  /\ last' = Call(request.route, request.sid, request.uid, TRUE,
                                  rest.ret)
                  /\ touched' = IF rest.stored
                                THEN [touched EXCEPT ![request.sid] = now]
                                ELSE touched
                  /\ UNCHANGED <<response, saved, train>>
       /\ inflight' = Holding(Done(slot), sessions')
       /\ UNCHANGED <<minted, now, adv_calls, sent, guessed, last_read, gen, scorer>>

HeldNext ==
    \/ /\ NoCallMidway
       /\ CreateSession
       /\ UNCHANGED <<last_read, gen, saved, scorer, train, inflight, response>>
    \/ \E slot \in Slots, sid \in SessionIds, uid \in HeldUids :
          ReadSession(slot, "add_message", sid, uid)
    \/ \E slot \in Slots, sid \in SessionIds,
          op \in {"update_guessing_progress", "advance_wagon",
                 "get_generated_train"} :
          ReadSession(slot, op, sid, <<>>)
    \/ \E slot \in Slots :
          IF inflight[slot].route = "update_guessing_progress"
          THEN \E thought \in Thoughts :
                  StoreSession(slot, thought, HeldProvider)
          ELSE StoreSession(slot, <<>>, HeldProvider)
    \/ \E max_age_hours \in MaxAges :
          /\ NoCallMidway
          /\ CleanupOldSessions(max_age_hours)
          /\ inflight' = Holding(inflight, sessions')
          /\ UNCHANGED <<last_read, gen, saved, scorer, train, response>>
    \/ \E sid \in SessionIds :
          /\ NoCallMidway
          /\ TerminateSession(sid)
          /\ inflight' = Holding(inflight, sessions')
          /\ UNCHANGED <<last_read, gen, saved, scorer, train, response>>
    \/ Tick /\ UNCHANGED <<last_read, gen, saved, scorer, train, inflight, response>>

HeldSpec == Init /\ [][HeldNext]_vars

\* ---------------------------------------------------------------- claims
WagonId(s) == sessions[s].current_wagon.wagon_id

Conversations(s) == sessions[s].current_wagon.conversations

\* a step that is a call of op on a session in the registry
CallOn(op, s) == /\ last' # last \/ adv_calls' # adv_calls
                 /\ last'.op = op
                 /\ last'.sid = s
                 /\ s \in Live

\* C1: after N advance_wagon calls that read the dataset (whatever other
\* calls come in between), a session created fresh is in wagon
\* min(N, max_wagon_index).
C1_AdvanceCount ==
    \A s \in Live : WagonId(s) = Min(adv_calls[s], max_wagon_index)

\* C1 witness: a session that was advanced more often than there are wagons
\* to advance to, and stands in the last wagon.
C1_Witness ==
    \E s \in Live : /\ adv_calls[s] > max_wagon_index
                    /\ WagonId(s) = max_wagon_index
                    /\ last.op = "advance_wagon"

\* C2: wagon_id of every session in the registry lies in 0..max_wagon_index,
\* and no step decreases the wagon_id of a session.
C2_WagonIdInRange == \A s \in Live : WagonId(s) \in 0..max_wagon_index

C2_WagonIdStep ==
    \A s \in Live \cap DOMAIN sessions' :
        sessions'[s].current_wagon.wagon_id >= WagonId(s)

C2_WagonIdBoundedMonotonic == []C2_WagonIdInRange /\ [][C2_WagonIdStep]_vars

\* C2 witness: a session that moved past wagon 0 and was worked on afterwards.
C2_Witness ==
    \E s \in Live : /\ WagonId(s) = max_wagon_index
                    /\ Conversations(s) # EmptyDict
                    /\ Len(sessions[s].guessing_progress.guesses) > 0

\* C3: add_message with a well-formed identity wagon-i-player-k on a session
\* in the registry returns a conversation iff i is the session's wagon_id;
\* when i differs the session is left as it was (no conversation created, no
\* message appended) and get_conversation of that identity gives None.
C3_Step ==
    \A s \in Live :
        (CallOn("add_message", s) /\ last'.uid \in WellFormedUids) =>
            LET i == WagonIdOf[last'.uid].val
            IN /\ (last'.ret.kind = "Conversation") <=> (i = WagonId(s))
               /\ (i # WagonId(s)) =>
                     /\ last'.ret = None
                     /\ sessions' = sessions
                     /\ get_conversation(sessions', s, last'.uid) = None

C3_AddMessageIffCurrentWagon == [][C3_Step]_vars

\* C3 witness: a message to a character of the wagon the session has left was
\* refused, while the session holds a conversation.
C3_Witness ==
    /\ last.op = "add_message"
    /\ last.sid \in Live
    /\ last.uid \in WellFormedUids
    /\ last.ret = None
    /\ WagonIdOf[last.uid].val < WagonId(last.sid)
    /\ Conversations(last.sid) # EmptyDict

\* C4: advance_wagon on a session that is in the last wagon returns False
\* and leaves the session as it was.
C4_Step ==
    \A s \in Live :
        (CallOn("advance_wagon", s) /\ WagonId(s) = max_wagon_index) =>
            /\ last'.ret = ReturnedBool(FALSE)
            /\ sessions' = sessions

C4_AdvanceAtTerminal == [][C4_Step]_vars

\* C4 witness: advance_wagon read the dataset, was called in the last wagon
\* and returned False; the session has conversations and a guess to lose.
C4_Witness ==
    /\ last.op = "advance_wagon"
    /\ last.readable
    /\ last.ret = ReturnedBool(FALSE)
    /\ last.sid \in Live
    /\ WagonId(last.sid) = max_wagon_index
    /\ adv_calls[last.sid] > max_wagon_index
    /\ Conversations(last.sid) # EmptyDict
    /\ Len(sessions[last.sid].guessing_progress.guesses) > 0

\* C5: after a successful advance_wagon the guessing progress of the session
\* is empty (no guesses, no indications).
C5_ProgressEmptyAfterAdvance ==
    (/\ last.op = "advance_wagon"
     /\ last.ret = ReturnedBool(TRUE)
     /\ last.sid \in Live)
    => get_guessing_progress(sessions, last.sid) = ReturnedProgress(GuessingProgress)

\* C6: a successful advance_wagon leaves the session with no conversations,
\* and from then on every identity of a wagon the session has left reads as
\* None through get_conversation, is refused by add_message, and keys no
\* stored conversation.
C6_Step ==
    \A s \in Live :
        (CallOn("advance_wagon", s) /\ last'.ret = ReturnedBool(TRUE)) =>
            /\ sessions'[s].current_wagon.conversations = EmptyDict
            /\ \A uid \in Uids :
                  (WagonIdOf[uid].ok /\ WagonIdOf[uid].val = WagonId(s)) =>
                      get_conversation(sessions', s, uid) = None

C6_LeftWagonsUnreachable ==
    \A s \in Live : \A uid \in WellFormedUids :
        WagonIdOf[uid].val < WagonId(s) =>
            /\ get_conversation(sessions, s, uid) = None
            /\ uid \notin DOMAIN Conversations(s)
            /\ (last.op = "add_message" /\ last.sid = s /\ last.uid = uid)
                  => last.ret = None

C6_AdvanceDiscardsConversations == [][C6_Step]_vars /\ []C6_LeftWagonsUnreachable

\* C6 witness: after an advance, a message to a character of the wagon left
\* behind was refused.
C6_Witness ==
    /\ last.op = "add_message"
    /\ last.sid \in Live
    /\ last.uid \in WellFormedUids
    /\ WagonIdOf[last.uid].val + 1 = WagonId(last.sid)
    /\ last.ret = None
    /\ Conversations(last.sid) = EmptyDict

\* C7: after a successful advance_wagon the current wagon carries the theme
\* and the passcode of the dataset entry at its wagon_id.
C7_NextWagonFromDataset ==
    (/\ last.op = "advance_wagon"
     /\ last.ret = ReturnedBool(TRUE)
     /\ last.sid \in Live)
    => LET current_wagon == sessions[last.sid].current_wagon
           entry == wagons_data[current_wagon.wagon_id + 1]
       IN /\ current_wagon.passcode = Some(entry.passcode)
          /\ "theme" \in DOMAIN current_wagon
          /\ current_wagon.theme = entry.theme

\* C8: advance_wagon called while the dataset cannot be loaded returns False
\* and leaves the session as it was.
C8_Step ==
    \A s \in Live :
        (CallOn("advance_wagon", s) /\ ~last'.readable) =>
            /\ last'.ret = ReturnedBool(FALSE)
            /\ sessions' = sessions

C8_LoadFailureNoMutation == [][C8_Step]_vars

\* C8 witness: advance_wagon failed on the dataset for a session that had a
\* next wagon to go to and state to lose.
C8_Witness ==
    /\ last.op = "advance_wagon"
    /\ ~last.readable
    /\ last.ret = ReturnedBool(FALSE)
    /\ last.sid \in Live
    /\ WagonId(last.sid) < max_wagon_index
    /\ Conversations(last.sid) # EmptyDict

\* C9: the conversation of an identity holds exactly the messages that
\* add_message accepted for it in this wagon, in the order of the calls, and
\* their timestamps do not decrease along the sequence.
C9_MessagesInCallOrder ==
    \A s \in Live :
        /\ \A uid \in DOMAIN sent[s] :
              /\ uid \in DOMAIN Conversations(s)
              /\ Conversations(s)[uid].messages = sent[s][uid]
              /\ Len(Conversations(s)[uid].messages) = Len(sent[s][uid])
              /\ \A i, j \in 1..Len(Conversations(s)[uid].messages) :
                    i < j => Conversations(s)[uid].messages[i].timestamp
                             <= Conversations(s)[uid].messages[j].timestamp
        /\ \A uid \in (DOMAIN Conversations(s)) \cap WellFormedUids :
              uid \in DOMAIN sent[s]

\* C9 witness: a conversation of two different messages sent at different
\* times.
C9_Witness ==
    \E s \in Live : \E uid \in DOMAIN Conversations(s) :
        LET messages == Conversations(s)[uid].messages
        IN /\ uid \in WellFormedUids
           /\ Len(messages) = MaxMsgs
           /\ messages[1].role # messages[2].role
           /\ messages[1].timestamp < messages[2].timestamp

\* C10: while a session stays in the registry and in the same wagon, every
\* conversation it holds stays, and its messages before a step are a prefix
\* of its messages after the step.
C10_Step ==
    \A s \in Live \cap DOMAIN sessions' :
        sessions'[s].current_wagon.wagon_id = WagonId(s) =>
            \A uid \in DOMAIN Conversations(s) :
                /\ uid \in DOMAIN sessions'[s].current_wagon.conversations
                /\ IsPrefix(Conversations(s)[uid].messages,
                            sessions'[s].current_wagon.conversations[uid].messages)

C10_ConversationsAppendOnly == [][C10_Step]_vars

\* C10 witness: a session holding a full character conversation next to the
\* narrator conversation written by update_guessing_progress.
C10_Witness ==
    \E s \in Live : \E uid \in (DOMAIN Conversations(s)) \cap WellFormedUids :
        /\ Len(Conversations(s)[uid].messages) = MaxMsgs
        /\ MainCharacter \in DOMAIN Conversations(s)
        /\ Len(Conversations(s)[MainCharacter].messages) >= 2

\* C11: after g calls of update_guessing_progress in the wagon a session is
\* in, its guesses and its indications have length g, hold the guesses and
\* the indications of those calls in call order, and every indication is a
\* user-role entry.
C11_GuessesOfThisWagon ==
    \A s \in Live :
        LET progress == sessions[s].guessing_progress
            g == Len(guessed[s])
        IN /\ Len(progress.guesses) = g
           /\ Len(progress.indications) = g
           /\ \A i \in 1..g :
                 /\ progress.guesses[i] = guessed[s][i].guess
                 /\ progress.indications[i].content = guessed[s][i].indication
                 /\ progress.indications[i].role = "user"

\* C12: for every length of the histories, generate hands the chain the 3
\* most recent previous guesses and the 5 most recent previous indications
\* (the last elements of the stored sequences), never older ones.
C12_MostRecentHistory ==
    gen.pc = "invoked" =>
        /\ gen.payload.previous_guesses =
               SliceLast(gen.previous_guesses, GuessWindow)
        /\ gen.payload.previous_indications =
               SliceLast([i \in 1..Len(gen.previous_indications) |->
                              gen.previous_indications[i].content],
                         IndicationWindow)

\* C13: for every current indication and every passcode (one word of
\* letters), the current indication generate hands the chain does not
\* contain the passcode: every occurrence has been replaced by the mask.
C13_NoPasscodeInPayload ==
    gen.pc = "invoked" =>
        ~Contains(gen.payload.current_indication, gen.password)

\* C13 witness: an indication that spelled the passcode more than once went
\* to the chain with the mask in its place.
C13_Witness ==
    /\ gen.pc = "invoked"
    /\ Contains(gen.current_indication, gen.password)
    /\ gen.current_indication # gen.password
    /\ Contains(Tail(gen.current_indication), gen.password)
    /\ Contains(gen.payload.current_indication, Mask)

\* the writes of a session that ran to their end
Completed(call) ==
    \/ call.op = "add_message" /\ call.ret.kind = "Conversation"
    \/ call.op = "update_guessing_progress" /\ call.ret = None
    \/ call.op = "advance_wagon" /\ call.ret = ReturnedBool(TRUE)

\* C14 as stated: every successful get_session of a session in the registry
\* sets the session's last_active to the current time.
C14_GetStep ==
    \A s \in Live :
        CallOn("get_session", s) => sessions'[s].last_active = now'

C14_Step ==
    \A s \in Live :
        /\ CallOn("get_session", s) =>
              /\ last'.ret = ReturnedSession(sessions[s])
              /\ sessions' = sessions
        /\ (\E op \in {"add_message", "update_guessing_progress", "advance_wagon"} :
                CallOn(op, s) /\ Completed(last')) =>
              sessions'[s].last_active = now'
        /\ (s \in DOMAIN sessions' /\ sessions'[s].last_active # sessions[s].last_active)
              => Completed(last')

C14_LastActiveTracksWrites == \A s \in Live : sessions[s].last_active = touched[s]

SweepStep == /\ last'.op = "cleanup_old_sessions"
             /\ last' # last \/ sessions' # sessions

Max(a, b) == IF a > b THEN a ELSE b

\* C15 as stated: after a sweep with threshold T, every session neither read
\* (get_session) nor written for longer than T is gone, and every session
\* read or written within T before the sweep is still there.
C15_ReadOrWrittenStep ==
    SweepStep =>
        \A s \in Live :
            LET access == Max(touched[s], last_read[s])
                T == last'.max_age_hours
            IN /\ (now - access > T) => s \notin DOMAIN sessions'
               /\ (now - access <= T) => s \in DOMAIN sessions'

C15_Step ==
    SweepStep =>
        \A s \in Live :
            LET T == last'.max_age_hours
            IN /\ (now - touched[s] > T) => s \notin DOMAIN sessions'
               /\ (now - touched[s] <= T) =>
                     /\ s \in DOMAIN sessions'
                     /\ sessions'[s] = sessions[s]

C16_Step ==
    /\ \A s \in TwoSessionIds :
          (/\ last'.op = "terminate_session"
           /\ last'.sid = s
           /\ last' # last \/ sessions' # sessions) =>
              /\ last'.ret = None
              /\ s \notin DOMAIN sessions'
              /\ get_session(sessions', s) = None
              /\ DOMAIN sessions' = Live \ {s}
              /\ \A o \in Live \ {s} : sessions'[o] = sessions[o]
              /\ s \notin Live => sessions' = sessions
    /\ \A s \in minted \ Live :
          /\ s \notin DOMAIN sessions'
          /\ get_session(sessions', s) = None

C16_TerminateRemovesForGood == [][C16_Step]_vars

\* C16 witness: a session that had moved on and been talked to was
\* terminated, while the other session stays in the registry.
C16_Witness ==
    /\ last.op = "terminate_session"
    /\ last.sid \in minted \ Live
    /\ adv_calls[last.sid] > 0
    /\ \E o \in Live : Conversations(o) # EmptyDict

\* C17: create_session registers a session under an id that no session in
\* the registry has, in wagon 0, with no conversations, with empty guessing
\* progress, created_at and last_active both the time of the call; it
\* returns that session and leaves every session already in the registry
\* as it was.
C17_Step ==
    \A id \in TwoSessionIds :
        (/\ last'.op = "create_session"
         /\ last'.sid = id
         /\ last' # last) =>
            /\ id \notin Live
            /\ DOMAIN sessions' = Live \cup {id}
            /\ sessions'[id].session_id = id
            /\ sessions'[id].current_wagon.wagon_id = 0
            /\ sessions'[id].current_wagon.conversations = EmptyDict
            /\ sessions'[id].guessing_progress = GuessingProgress
            /\ sessions'[id].created_at = now'
            /\ sessions'[id].last_active = now'
            /\ last'.ret = ReturnedSession(sessions'[id])
            /\ \A o \in Live : sessions'[o] = sessions[o]

C18_NoPartialVisibility ==
    \A s \in Live :
        LET read == get_session(sessions, s).session
            progress == get_guessing_progress(sessions, s).progress
            convs == read.current_wagon.conversations
        IN /\ read.last_active = touched[s]
           /\ Len(progress.guesses) = Len(progress.indications)
           /\ Len(progress.guesses) = Len(guessed[s])
           /\ MainCharacter \in DOMAIN convs =>
                 /\ Len(convs[MainCharacter].messages) % 2 = 0
                 /\ Len(convs[MainCharacter].messages) = 2 * Len(guessed[s])

\* an identity with fewer than two '-'-separated parts, or whose second part
\* is not a decimal number
Unparsable(uid) ==
    LET parts == Split(uid, "-")
    IN \/ Len(parts) < 2
       \/ Len(parts[2]) = 0
       \/ \E i \in 1..Len(parts[2]) : ~IsDigit(parts[2][i])

\* the identities clients send from which no wagon index can be parsed, and
\* the error each of them ends in
UnparsableUids == {uid \in Uids : Unparsable(uid)}

InvalidIdentity ==
    [uid \in UnparsableUids |->
        IF Len(Split(uid, "-")) < 2 THEN "IndexError" ELSE "ValueError"]

\* C19: add_message on a session in the registry with an identity from
\* which no wagon index can be parsed ends in an error (IndexError for
\* fewer than two parts, ValueError for a second part that is no integer),
\* which is not the None of the wrong wagon, and leaves the registry as it
\* was.
C19_Step ==
    \A s \in Live :
        (CallOn("add_message", s) /\ last'.uid \in UnparsableUids) =>
            /\ last'.ret # None
            /\ last'.ret = Raised(InvalidIdentity[last'.uid])
            /\ sessions' = sessions

C19_UnparsableIdentityRaises == [][C19_Step]_vars

\* C19 witness: add_message raised on an identity without a wagon index, in a
\* session that has moved on and holds a conversation.
C19_Witness ==
    /\ last.op = "add_message"
    /\ last.sid \in Live
    /\ last.uid \in UnparsableUids
    /\ last.ret.kind = "raised"
    /\ WagonId(last.sid) > 0
    /\ Conversations(last.sid) # EmptyDict

\* C20: get_conversation on a session in the registry, with an identity
\* wagon-i-player-k, returns None when i is not the session's wagon_id or
\* the session holds no conversation of that identity, and the stored
\* conversation otherwise; with any identity it leaves the registry as it
\* was: no conversation is created and no message sequence changes.
C20_Step ==
    \A s \in Live :
        CallOn("get_conversation", s) =>
            /\ sessions' = sessions
            /\ last'.uid \in WellFormedUids =>
                  IF \/ WagonIdOf[last'.uid].val # WagonId(s)
                     \/ last'.uid \notin DOMAIN Conversations(s)
                  THEN last'.ret = None
                  ELSE last'.ret =
                           ReturnedConversation(Conversations(s)[last'.uid])

C20_GetConversationReadsOnly == [][C20_Step]_vars

\* C20 witness: get_conversation returned None for a character of the
\* session's wagon that has not been talked to, in a session that holds
\* the narrator conversation and has left wagon 0.
C20_Witness ==
    /\ last.op = "get_conversation"
    /\ last.sid \in Live
    /\ last.uid \in WellFormedUids
    /\ WagonIdOf[last.uid].val = WagonId(last.sid)
    /\ WagonId(last.sid) > 0
    /\ last.ret = None
    /\ DOMAIN Conversations(last.sid) = {MainCharacter}

\* C21: however the requests that advance a session and the requests that
\* chat on it interleave, a message addressed to a character of wagon i is
\* appended only while the session is in wagon i, a conversation held by a
\* session always belongs to the wagon the session is in, and add_message
\* returns a conversation only when that conversation, with the message, is
\* the one stored for the wagon the session is in.
C21_Step ==
    /\ \A s \in DOMAIN sessions' :
          \A uid \in DOMAIN sessions'[s].current_wagon.conversations :
              /\ uid \in WellFormedUids
              /\ WagonIdOf[uid].val = sessions'[s].current_wagon.wagon_id
    /\ \A s \in Live :
          (CallOn("add_message", s) /\ last'.uid \in WellFormedUids) =>
              LET i == WagonIdOf[last'.uid].val
              IN /\ (sessions' # sessions) => i = WagonId(s)
                 /\ (last'.ret.kind = "Conversation") =>
                       /\ s \in DOMAIN sessions'
                       /\ sessions'[s].current_wagon.wagon_id = i
                       /\ last'.uid \in DOMAIN sessions'[s].current_wagon.conversations
                       /\ sessions'[s].current_wagon.conversations[last'.uid]
                             = last'.ret.conversation

C21_NoMessageToVacatedWagon == [][C21_Step]_vars

\* C21 witness: a chat request addressed to a character of wagon 0 was
\* refused after the session had advanced to wagon 1, another request being
\* in flight, and the session holds no conversation.
C21_Witness ==
    /\ response.route = "chat"
    /\ response.code = 400
    /\ response.body = Detail("Cannot chat with character from different wagon")
    /\ response.sid \in Live
    /\ WagonId(response.sid) = 1
    /\ Conversations(response.sid) = EmptyDict
    /\ last.op = "advance_wagon"
    /\ last.ret = ReturnedBool(TRUE)
    /\ \E slot \in Slots : inflight[slot].route # "none"

\* C22: with several requests on one session in flight, every add_message
\* that returns a conversation stores the messages the conversation held
\* before the call followed by the new one (an identity without a
\* conversation starting from none), and leaves the other conversations of
\* the session as they were: no message another call stored is lost.
C22_Step ==
    \A s \in Live :
        (CallOn("add_message", s) /\ last'.ret.kind = "Conversation") =>
            LET uid == last'.uid
                before == IF uid \in DOMAIN Conversations(s)
                          THEN Conversations(s)[uid].messages ELSE <<>>
                after == sessions'[s].current_wagon.conversations
            IN /\ DOMAIN after = DOMAIN Conversations(s) \cup {uid}
               /\ Len(after[uid].messages) = Len(before) + 1
               /\ SubSeq(after[uid].messages, 1, Len(before)) = before
               /\ after[uid].messages[Len(before) + 1].role \in Roles
               /\ \A other \in DOMAIN Conversations(s) :
                     other # uid => after[other] = Conversations(s)[other]

C22_NoLostMessage == [][C22_Step]_vars

\* C22 witness: a chat request on a character waited in the second slot
\* while a whole chat turn with the same character was stored and answered;
\* its own message is now stored after the two of that turn.
C22_Witness ==
    /\ inflight[1] = NoRequest
    /\ inflight[2].route = "chat"
    /\ inflight[2].pc = "generating"
    /\ inflight[2].sid \in Live
    /\ response.route = "chat"
    /\ response.code = 200
    /\ response.sid = inflight[2].sid
    /\ response.body.uid = inflight[2].uid
    /\ Len(Conversations(inflight[2].sid)[inflight[2].uid].messages) = 3

\* C23: the sweep never removes a session that an add_message,
\* update_guessing_progress or advance_wagon call has read and not yet
\* stored, and a call that runs to its end leaves its session in the
\* registry with last_active at the current time.
C23_Step ==
    /\ SweepStep =>
          \A slot \in Slots :
              inflight[slot].pc = "read" => inflight[slot].sid \in DOMAIN sessions'
    /\ \A slot \in Slots :
          (inflight[slot].pc = "read" /\ inflight'[slot] = NoRequest
             /\ Completed(last') /\ last' # last) =>
              /\ inflight[slot].sid \in Live \cap DOMAIN sessions'
              /\ sessions'[inflight[slot].sid].last_active = now

C24_Step ==
    \A slot \in Slots :
        inflight[slot].pc = "generating" =>
            LET s == inflight[slot].sid
                uid == inflight[slot].uid
            IN /\ s \in Live
               /\ WagonId(s) = WagonIdOf[uid].val
               /\ uid \in DOMAIN Conversations(s)
               /\ Conversations(s)[uid].messages[Len(Conversations(s)[uid].messages)].role
                     = "user"
               /\ (inflight'[slot] = NoRequest /\ response'.code = 200) =>
                     /\ response'.route = "chat"
                     /\ s \in DOMAIN sessions'
                     /\ uid \in DOMAIN sessions'[s].current_wagon.conversations
                     /\ LET messages ==
                                sessions'[s].current_wagon.conversations[uid].messages
                        IN /\ Len(messages) = Len(Conversations(s)[uid].messages) + 1
                           /\ messages[Len(messages)].role = "assistant"
                           /\ messages[Len(messages)].content = response'.body.response

C25_Step ==
    \A slot \in Slots :
        (inflight[slot].pc = "generating" /\ inflight'[slot] = NoRequest) =>
            \/ response'.code = 200
            \/ response'.body # Detail("provider_error")

C25_FallbackOnProviderError == [][C25_Step]_vars

\* C26 as stated: no response sent to a client carries the passcode of a
\* wagon: neither the session a route returns nor the wagons a route lists
\* hold one.
C26_NoPasscodeInResponse ==
    /\ response.body.kind = "UserSession" =>
          response.body.session.current_wagon.passcode = None
    /\ response.body.kind = "wagons" =>
          \A i \in DOMAIN response.body.wagons :
              "passcode" \notin DOMAIN response.body.wagons[i]

\* C27: a call of get_session, add_message, get_conversation,
\* update_guessing_progress, advance_wagon or terminate_session with a
\* session id that is not in the registry returns the value the operation
\* has for a missing session (False for advance_wagon, None for the others)
\* and leaves the registry as it was.
C27_Step ==
    \A s \in SessionIds \ Live :
        (/\ last' # last
         /\ last'.sid = s
         /\ last'.op \in {"get_session", "add_message", "get_conversation",
                          "update_guessing_progress", "advance_wagon",
                          "terminate_session"}) =>
            /\ sessions' = sessions
            /\ last'.ret = IF last'.op = "advance_wagon"
                           THEN ReturnedBool(FALSE) ELSE None

C27_AbsentSessionNotFound == [][C27_Step]_vars

\* C27 witness: advance_wagon was called on the id of a session that had
\* been registered and removed, and returned False.
C27_Witness ==
    /\ last.op = "advance_wagon"
    /\ last.sid \in minted \ Live
    /\ last.ret = ReturnedBool(FALSE)

\* C28 as stated: an update_guessing_progress call on a session in the
\* registry either stores all four appends (the guess, the indication, and
\* in the narrator conversation of the wagon the indication as a user
\* message followed by the rationale as an assistant message) in one
\* session update, or stores none of them.
C28_Step ==
    \A s \in Live :
        CallOn("update_guessing_progress", s) =>
            LET progress == sessions[s].guessing_progress
                progress_after == sessions'[s].guessing_progress
                narrator == IF MainCharacter \in DOMAIN Conversations(s)
                            THEN Conversations(s)[MainCharacter].messages
                            ELSE <<>>
                convs_after == sessions'[s].current_wagon.conversations
                narrator_after == IF MainCharacter \in DOMAIN convs_after
                                  THEN convs_after[MainCharacter].messages
                                  ELSE <<>>
            IN \/ sessions'[s] = sessions[s]
               \/ /\ Len(progress_after.guesses) = Len(progress.guesses) + 1
                  /\ Len(progress_after.indications) = Len(progress.indications) + 1
                  /\ Len(narrator_after) = Len(narrator) + 2
                  /\ narrator_after[Len(narrator) + 1].role = "user"
                  /\ narrator_after[Len(narrator) + 2].role = "assistant"
                  /\ sessions'[s].last_active = now

C28_FourAppendsOrNone == [][C28_Step]_vars

\* C29: a call of add_message, update_guessing_progress, advance_wagon,
\* terminate_session or get_session on one session leaves every other
\* session in the registry, field for field as it was, and what a read of
\* a session returns is what it returns from the registry without the other
\* session.
C29_Step ==
    /\ \A a \in TwoSessionIds :
          (/\ last' # last \/ sessions' # sessions
           /\ last'.sid = a
           /\ last'.op \in {"add_message", "update_guessing_progress",
                            "advance_wagon", "terminate_session",
                            "get_session"}) =>
              \A b \in Live \ {a} :
                  /\ b \in DOMAIN sessions'
                  /\ sessions'[b] = sessions[b]
                  /\ sent'[b] = sent[b]
                  /\ touched'[b] = touched[b]
    /\ \A a \in DOMAIN sessions' : \A b \in (DOMAIN sessions') \ {a} :
          /\ get_session(sessions', b) = get_session(DictDel(sessions', a), b)
          /\ get_guessing_progress(sessions', b)
                = get_guessing_progress(DictDel(sessions', a), b)
          /\ \A k \in Players :
                get_conversation(sessions', b, Uid(0, k))
                   = get_conversation(DictDel(sessions', a), b, Uid(0, k))

C29_SessionsIndependent == [][C29_Step]_vars

\* C29 witness: one session was advanced while the other, in wagon 0, holds
\* a conversation and a guess.
C29_Witness ==
    /\ last.op = "advance_wagon"
    /\ last.ret = ReturnedBool(TRUE)
    /\ last.sid \in Live
    /\ \E b \in Live \ {last.sid} :
          /\ WagonId(b) = 0
          /\ \E k \in Players : Uid(0, k) \in DOMAIN Conversations(b)
          /\ Len(sessions[b].guessing_progress.guesses) > 0

\* the registry after terminate_session on each of the ids
RECURSIVE TerminateEach(_, _)
TerminateEach(_sessions, ids) ==
    IF ids = {} THEN _sessions
    ELSE LET id == CHOOSE x \in ids : TRUE
         IN TerminateEach(IF id \in DOMAIN _sessions THEN DictDel(_sessions, id)
                          ELSE _sessions,
                          ids \ {id})

\* C30: cleanup_old_sessions(d) removes exactly the sessions whose
\* now - last_active is greater than d, so that a session of age d stays,
\* leaves the others as they were, and leaves the registry terminate_session
\* on each removed id would leave.
C30_Step ==
    SweepStep =>
        LET d == last'.max_age_hours
            old == {s \in Live : now - sessions[s].last_active > d}
        IN /\ DOMAIN sessions' = Live \ old
           /\ \A s \in Live : (now - sessions[s].last_active = d) =>
                                 s \in DOMAIN sessions'
           /\ \A s \in Live \ old : sessions'[s] = sessions[s]
           /\ sessions' = TerminateEach(sessions, old)
           /\ last'.ret = None

C30_SweepRemovesExactlyTheOld == [][C30_Step]_vars

\* C30 witness: of two sessions created at hour 0, the sweep with d = 0 at
\* hour 1 removed the one last active at hour 0 and kept the one last
\* active at hour 1, whose age is d.
C30_Witness ==
    /\ last.op = "cleanup_old_sessions"
    /\ last.max_age_hours = 0
    /\ now = 1
    /\ minted = TwoSessionIds
    /\ \E b \in Live :
          /\ minted \ Live = TwoSessionIds \ {b}
          /\ sessions[b].created_at = 0
          /\ sessions[b].last_active = 1

\* C36 as stated: every conversation a session holds is stored under its
\* own uid, that uid encodes the wagon the session is in, and
\* get_conversation with that uid returns the conversation; the narrator
\* conversation that update_guessing_progress writes is one of them.
C36_ConversationsReadBack ==
    \A s \in Live : \A uid \in DOMAIN Conversations(s) :
        /\ Conversations(s)[uid].uid = uid
        /\ WagonIdOf[uid].ok
        /\ WagonIdOf[uid].val = WagonId(s)
        /\ get_conversation(sessions, s, uid)
              = ReturnedConversation(Conversations(s)[uid])

\* C38 as stated: whatever chat requests a character has received, its
\* conversation alternates user, assistant from a user message on, and a
\* request answered with success leaves it of even length with the reply
\* the client received as its last message.
C38_Step ==
    /\ \A s \in DOMAIN sessions' :
          \A uid \in DOMAIN sessions'[s].current_wagon.conversations :
              LET messages == sessions'[s].current_wagon.conversations[uid].messages
              IN \A i \in 1..Len(messages) :
                     messages[i].role = IF i % 2 = 1 THEN "user" ELSE "assistant"
    /\ \A slot \in Slots :
          (/\ inflight[slot].pc = "generating"
           /\ inflight'[slot] = NoRequest
           /\ response'.code = 200) =>
              LET messages ==
                      sessions'[inflight[slot].sid].current_wagon
                          .conversations[inflight[slot].uid].messages
              IN /\ Len(messages) % 2 = 0
                 /\ messages[Len(messages)].content = response'.body.response

C38_ConversationAlternates == [][C38_Step]_vars

\* C39 as stated: an update_guessing_progress call that raises partway
\* leaves the stored session as it was, with no guess, indication or
\* narrator message of the call in it and guesses and indications of equal
\* length.
C39_Step ==
    \A s \in Live :
        (CallOn("update_guessing_progress", s) /\ last'.ret.kind = "raised") =>
            /\ sessions'[s] = sessions[s]
            /\ Len(sessions'[s].guessing_progress.guesses)
                  = Len(sessions'[s].guessing_progress.indications)

C39_FailedGuessChangesNothing == [][C39_Step]_vars

\* C40: the last_active of a session is never earlier than its created_at
\* and never decreases while the session is in the registry, and a call
\* that is refused (a message for another wagon, an advance whose dataset
\* does not load, an advance from the last wagon) leaves it as it was.
C40_Step ==
    /\ \A s \in DOMAIN sessions' :
          sessions'[s].last_active >= sessions'[s].created_at
    /\ \A s \in Live \cap DOMAIN sessions' :
          /\ sessions'[s].last_active >= sessions[s].last_active
          /\ (/\ CallOn("add_message", s)
              /\ last'.uid \in WellFormedUids
              /\ WagonIdOf[last'.uid].val # WagonId(s)) =>
                 sessions'[s].last_active = sessions[s].last_active
          /\ (/\ CallOn("advance_wagon", s)
              /\ \/ ~last'.readable
                 \/ WagonId(s) = max_wagon_index) =>
                 sessions'[s].last_active = sessions[s].last_active

C40_LastActiveMonotonic == [][C40_Step]_vars

\* C40 witness: a message for a wagon the session is not in was refused
\* and the session, created earlier than now, has the last_active it was
\* created with.
C40_Witness ==
    /\ last.op = "add_message"
    /\ last.ret = None
    /\ last.uid \in WellFormedUids
    /\ last.sid \in Live
    /\ WagonIdOf[last.uid].val # WagonId(last.sid)
    /\ sessions[last.sid].last_active = sessions[last.sid].created_at
    /\ now > sessions[last.sid].last_active

\* C37 as stated: over the guess requests of one wagon nothing handed to
\* the chain contains the passcode: neither the current indication nor any
\* of the previous indications, which are the earlier current ones.
C37_NoPasscodeInAnyIndication ==
    gen.pc = "invoked" =>
        /\ ~Contains(gen.payload.current_indication, gen.password)
        /\ \A i \in 1..Len(gen.payload.previous_indications) :
              ~Contains(gen.payload.previous_indications[i], gen.password)

\* the attempts of a scorer call whose reply was not a text that fails to
\* parse
Parsed(call) ==
    {i \in 1..Len(call.replies) : call.replies[i].kind # "malformed"}

\* C32: is_similar asks the provider at most max_retries times and asks
\* again only after a reply that failed to parse; it returns the score of
\* the first reply that parses (a reply that parses without a score, or an
\* error of the provider, ends the call in that error at once), and after
\* max_retries replies that fail to parse it ends in the parse error and
\* returns no score.
C32_ScorerOutcome ==
    /\ scorer.pc # "idle" =>
          /\ scorer.asked <= max_retries
          /\ scorer.attempt < max_retries
          /\ \A i \in 1..scorer.attempt : scorer.replies[i].kind = "malformed"
          /\ scorer.asked \in {scorer.attempt, scorer.attempt + 1}
    /\ scorer.pc = "returned" =>
          /\ Parsed(scorer) # {}
          /\ scorer.asked = CHOOSE i \in Parsed(scorer) :
                                \A j \in Parsed(scorer) : i <= j
          /\ scorer.replies[scorer.asked] = Scored(scorer.result)
    /\ scorer.pc = "raised" =>
          \/ /\ scorer.result = "JSONDecodeError"
             /\ scorer.asked = max_retries
             /\ Parsed(scorer) = {}
          \/ /\ scorer.result # "JSONDecodeError"
             /\ scorer.replies[scorer.asked].kind \in {"no_score", "provider_error"}
             /\ \A i \in 1..(scorer.asked - 1) : scorer.replies[i].kind = "malformed"

\* C32 witness: the scorer returned the score of its third reply after two
\* replies that failed to parse.
C32_Witness ==
    /\ scorer.pc = "returned"
    /\ scorer.asked = max_retries
    /\ scorer.replies[1].kind = "malformed"
    /\ scorer.replies[2].kind = "malformed"
    /\ scorer.result = "0.9"

\* C34: in every train that generate_train_json produced and
\* convert_and_return_jsons converted, the wagon at list position p (from 0)
\* has id p, the tutorial wagon being at position 0, and the person at
\* position i (from 1) of a wagon has the uid wagon-<id>-player-<i> with <id>
\* the id of that wagon, so that int(uid.split("-")[1]) is the id of the
\* wagon that contains the person.
C34_GeneratedUidsNameTheirWagon ==
    train.pc = "converted" =>
       LET all_wagons == train.converted.all_wagons
       IN /\ all_wagons[1].id = 0
          /\ all_wagons[1].passcode = TutorialWagon.passcode
          /\ \A p \in 1..Len(all_wagons) :
                /\ all_wagons[p].id = p - 1
                /\ \A i \in 1..Len(all_wagons[p].people) :
                      /\ all_wagons[p].people[i].uid = Uid(p - 1, i)
                      /\ UidWagonId(all_wagons[p].people[i].uid)
                            = [ok |-> TRUE, val |-> all_wagons[p].id]

\* C34 witness: a converted train with the tutorial wagon and NumWagons
\* generated wagons, the last of them with MaxPassengers people.
C34_Witness ==
    /\ train.pc = "converted"
    /\ Len(train.converted.all_wagons) = NumWagons + 1
    /\ Len(train.converted.all_wagons[NumWagons + 1].people) = MaxPassengers

\* a step of the train generation route
GenerateStep ==
    /\ response'.route = "get_generated_train"
    /\ last' = last
    /\ \/ response' # response
       \/ train' # train
       \/ sessions' # sessions
       \/ saved' # saved

\* C33: a train generation request gets as far as generating only for a
\* session that exists and a number_of_wagons that is an integer in 1..6; a
\* request that does not end in 200 leaves the registry and the default_game
\* flag of every session as they were; and whenever the default_game flag of
\* a session changes, it changes to False in a request for that session that
\* ends in 200, with names.json, player_details.json and wagons.json saved
\* for that session.
C33_Step ==
    /\ GenerateStep =>
          /\ train' # Idle =>
                /\ response'.sid \in Live
                /\ train'.num_wagons \in 1..6
          /\ response'.code = 200 => train' # Idle
          /\ response'.code # 200 =>
                /\ DOMAIN sessions' = Live
                /\ \A s \in Live :
                      sessions'[s].default_game = sessions[s].default_game
    /\ \A s \in Live \cap DOMAIN sessions' :
          sessions'[s].default_game # sessions[s].default_game =>
             /\ GenerateStep
             /\ response'.sid = s
             /\ response'.code = 200
             /\ ~sessions'[s].default_game
             /\ \A i \in 1..3 : FileNames[i] \in DOMAIN saved'.session[s]

C33_FlagFollowsSavedTrain == [][C33_Step]_vars

\* C33 witness: a request for an existing session with number_of_wagons 6
\* was generated for, failed with 500, and the session still has
\* default_game True.
C33_Witness ==
    /\ response.route = "get_generated_train"
    /\ response.code = 500
    /\ response.sid \in Live
    /\ sessions[response.sid].default_game
    /\ train # Idle
    /\ train.num_wagons = 6

\* the wagons of the data scope of a session: of data/<session_id>/ once
\* default_game is False, of data/default/ otherwise
ScopeWagons(session) ==
    load_session_data(session.session_id, session.default_game)

\* an advance_wagon call for a live session that loaded data/wagons.json
AdvanceStep(sid) ==
    /\ sid \in Live
    /\ last'.op = "advance_wagon"
    /\ last'.sid = sid
    /\ last'.readable
    /\ last' # last \/ sessions' # sessions

\* C31: advance_wagon moves a session to the next wagon exactly when the
\* next wagon id is at most the last index of the wagons of the session's
\* data scope, the wagons the listing serves to that session.
C31_Step ==
    \A sid \in SessionIds :
        (AdvanceStep(sid) /\ ScopeWagons(sessions[sid]).kind = "data") =>
            (last'.ret = ReturnedBool(TRUE))
               = (NextWagonId(sessions[sid].current_wagon.wagon_id)
                    <= Len(ScopeWagons(sessions[sid]).wagons.items) - 1)

C31_BoundFromSessionScope == [][C31_Step]_vars

\* C35: a session id that was in the registry and is no longer in it is
\* never in the registry again, whatever call comes next: no add_message,
\* update_guessing_progress, advance_wagon or train generation request that
\* read the session stores it after terminate_session or the sweep removed
\* it.
C35_Step == \A sid \in minted \ Live : sid \notin DOMAIN sessions'

====
